---- MODULE Spec2Model ----
(***************************************************************************)
(* Playback core of ytm-cli: the Player (player.py), the tray              *)
(* PlaybackWorker (tray.py), the two interactive CLI queue loops (main.py) *)
(* and the catalog API list helpers (api.py).                              *)
(*                                                                         *)
(* A track is modelled by its videoId: 1..NumIds are ids, 0 is a missing   *)
(* (falsy) videoId.  External collaborators (yt-dlp, mpv, ytmusicapi, the  *)
(* file system) are nondeterministic: every outcome their interface allows *)
(* is drawn with \E.  A handler of the worker runs to completion on the    *)
(* worker thread; it is split into steps at its blocking calls (resolve,   *)
(* spawn, wait for the endpoint, radio request) and `pc` is the position   *)
(* inside the running handler: no other command starts until pc = "idle".  *)
(***************************************************************************)
EXTENDS Integers, Sequences, FiniteSets, TLC

\* ---- bounds ----
NumIds == 3
MaxInitLen == 2
MaxRaw == 3
MaxOver == 2
MaxLeak == 1
\* posted slot calls not yet delivered
MaxPending == 2
\* calls the popup and the control socket may have posted and not yet delivered
MaxPosted == 1
\* pieces of white space before and after the text of a control payload
MaxPad == 1
\* size of the catalog the radio source draws from in SpecDeep
Catalog == 600

Ids == 1..NumIds
RawIds == 0..NumIds

VARIABLES
    \* PlaybackWorker fields (tray.py 707-718) / loop locals (main.py 174-175)
    queue, queue_index, paused, radio_mode, poll_timer, stopped,
    \* Player fields (player.py 38-44); _last_error only feeds the text of the
    \* exception play() raises and is the `err` of the resolver's result
    process, socket_path, socket, duration, audio_file,
    \* what exists outside the Player object: is the process of the handle running,
    \* is there a file at _socket_path / _audio_file; processes and files no field
    \* refers to any more; non-empty files a failed resolve left behind
    procAlive, sockOnDisk, audioOnDisk, orphanProcs, orphanSocks, orphanAudio, leakedAudio,
    \* history of the Player: its life cycle, and the state the last call found
    \* when that call was stop(); the videoId the installed Session plays (0: none)
    life, lastStop, playing,
    \* control: front end, position inside the running handler, events it emitted
    mode, pc, events,
    \* history: Player.play calls made while no user command was issued
    naturalOnly, playLog, radioKey, radioRet,
    \* the worker thread's event queue: slot calls posted by queued connections
    \* (tray.py 1029-1042), the call it delivered last, and how far the main
    \* thread is in run_tray_mode (tray.py 1080-1092)
    pending, last, phase,
    \* the last control-channel call a caller of the Player made, and its result
    call,
    \* what the three yt-dlp runs of the last _download_audio did, and its result
    resolver,
    \* the payload the control server read and has not dispatched yet
    ctl,
    \* the now-playing snapshot file exists (tray.py 58)
    now_playing,
    \* iterations of the endpoint wait of Player.play done so far; the peer and
    \* the read loop of the control-channel command that is under way
    tries, rx,
    \* the pause property of the mpv the Session runs (a fresh mpv starts unpaused)
    mpv_pause,
    \* Python frames of the slot call the worker is running (0: between slots)
    depth

workerVars == <<queue, queue_index, paused, radio_mode, poll_timer, stopped>>
playerVars == <<process, socket_path, socket, duration, audio_file>>
osVars == <<procAlive, sockOnDisk, audioOnDisk, orphanProcs, orphanSocks, orphanAudio, leakedAudio>>
plHist == <<life, lastStop, playing>>
playerAll == <<playerVars, osVars, plHist>>
\* what no handler of the worker or step of Player.play writes
back == <<ctl, tries, rx>>
\* the front end in use, and what only a pause command that took effect writes
setting == <<mode, mpv_pause, depth>>
ingress == <<setting, pending, last, phase, call, resolver, back>>
front == <<ingress, now_playing>>
ctlVars == <<front, pc, events>>
histVars == <<naturalOnly, playLog, radioKey, radioRet>>
vars == <<workerVars, playerAll, ctlVars, histVars>>

\* ---- sequence helpers ----
Range(s) == {s[i] : i \in 1..Len(s)}
NoDup(s) == \A i, j \in 1..Len(s) : i # j => s[i] # s[j]
RawLists == UNION {[1..n -> RawIds] : n \in 0..MaxRaw}

\* ---- catalog API (api.py) ----
RECURSIVE DedupFrom(_, _, _)
DedupFrom(raw, i, acc) ==
    IF i > Len(raw) THEN acc
    ELSE DedupFrom(raw, i + 1,
                   IF raw[i] # 0 /\ raw[i] \notin Range(acc)
                   THEN Append(acc, raw[i]) ELSE acc)

\* get_radio: [] when the backend raises, else the tracks that have a videoId,
\* first occurrence of each id only
get_radio(raw, raises) == IF raises THEN <<>> ELSE DedupFrom(raw, 1, <<>>)

\* search: the items that have a videoId, in order (no de-duplication)
search(raw) == LET HasId(x) == x # 0 IN SelectSeq(raw, HasId)

\* rate_song: False when unauthenticated or the backend call raises
RateOutcomes == {"ok", "unauthenticated", "backend_error"}
rate_song(outcome) == outcome = "ok"

\* the queue a front end starts from is non-empty and free of duplicates (main.py
\* 169, 299, 340, 513, 627); ids are interchangeable, so it is <<1, ..., n>>
InitQueues == {[i \in 1..n |-> i] : n \in 1..MaxInitLen}
\* Track ids are interchangeable.  A search replaces the queue wholesale and
\* nothing of the old queue survives it, so its results are drawn up to a
\* renaming of ids: each new id is the smallest one not used earlier in the list.
FirstUse(q) == \A i \in 1..Len(q) : \A v \in 1..(q[i] - 1) : \E j \in 1..(i - 1) : q[j] = v
SearchResults == {q \in {search(raw) : raw \in RawLists} : FirstUse(q)}

\* A radio answer may repeat ids of the queue `q` in any order; the ids it
\* brings that are not in the queue are interchangeable, so they come smallest first.
FreshInOrder(q, r) ==
    \A i \in 1..Len(r) :
        r[i] \notin Range(q) =>
            \A v \in Ids : (v < r[i] /\ v \notin Range(q)) => \E j \in 1..(i - 1) : r[j] = v
AllRadioResults == {get_radio(raw, raises) : raw \in RawLists, raises \in BOOLEAN}
RadioResults(q) == {r \in AllRadioResults : FreshInOrder(q, r)}

\* ---- resolver (player.py _download_audio) ----
\* what one yt-dlp run does: raise or return, and what it leaves at the output path
Outcomes == [raises : BOOLEAN, write : {"keep", "empty", "data"}]
NoAttempt == [done |-> FALSE, file |-> "absent", by |-> 0, err |-> 0, used |-> 0]

TryStrategy(st, k, o) ==
    IF st.done THEN st
    ELSE LET file1 == IF o.write = "keep" THEN st.file ELSE o.write
             by1 == IF o.write = "keep" THEN st.by ELSE k
         IN IF o.raises
            THEN [st EXCEPT !.file = file1, !.by = by1, !.err = k]
            ELSE IF file1 = "data"
                 THEN [st EXCEPT !.done = TRUE, !.file = file1, !.by = by1, !.used = k]
                 ELSE [st EXCEPT !.file = file1, !.by = by1]

download_audio(outs) ==
    LET s3 == TryStrategy(TryStrategy(TryStrategy(NoAttempt, 1, outs[1]), 2, outs[2]), 3, outs[3])
    IN IF s3.done THEN s3
       ELSE [s3 EXCEPT !.file = IF s3.file = "empty" THEN "absent" ELSE s3.file]

DownloadResults == {download_audio(outs) : outs \in [1..3 -> Outcomes]}

\* ---- control channel (player.py _connect_ipc, _send_command) ----
CmdOutcomes == {"ok", "error", "eof", "badjson"}

connect_ipc(ok) ==
    IF socket_path = "set" /\ sockOnDisk /\ procAlive /\ ok THEN "open" ELSE "none"

\* the value of _socket after one _send_command that found it `sock`
send_command(sock, ok, o) ==
    LET s1 == IF sock = "none" THEN connect_ipc(ok) ELSE sock
    IN IF s1 = "none" THEN "none"
       ELSE IF o = "error" \/ o = "badjson" THEN "none"
       ELSE IF o = "ok" /\ ~procAlive THEN "none"
       ELSE s1

NoStop == [from |-> "none", proc |-> "none", ipc |-> "none"]

\* one or two consecutive commands; nothing but _socket changes
PlayerSend1 ==
    /\ socket' \in {send_command(socket, ok, o) : ok \in BOOLEAN, o \in CmdOutcomes}
    /\ lastStop' = NoStop
    /\ UNCHANGED <<process, socket_path, duration, audio_file, osVars, life, playing>>

PlayerSend2 ==
    /\ socket' \in {send_command(send_command(socket, ok1, o1), ok2, o2) :
                       ok1 \in BOOLEAN, o1 \in CmdOutcomes, ok2 \in BOOLEAN, o2 \in CmdOutcomes}
    /\ lastStop' = NoStop
    /\ UNCHANGED <<process, socket_path, duration, audio_file, osVars, life, playing>>

\* ---- Player.stop (player.py 220-252) ----
\* how a running mpv takes terminate(): it exits within the 2 s wait, keeping or
\* removing its endpoint file, or it ignores the request and is killed
StopOutcomes == {"exits", "exits_unlinks", "ignores"}

unlink_never(path, onDisk) == FALSE

\* `if self._socket_path and self._socket_path.exists()` (player.py 237), and the
\* same test on _audio_file (player.py 245)
set_and_exists(path, onDisk) == path = "set" /\ onDisk

PlayerStop ==
    \E how \in (IF process = "set" /\ procAlive THEN StopOutcomes ELSE {"exits"}) :
        LET live == process = "set" /\ procAlive
            sockThere == IF live /\ how = "exits_unlinks" THEN FALSE ELSE sockOnDisk
            unlinkSock == set_and_exists(socket_path, sockThere)
            unlinkAudio == set_and_exists(audio_file, audioOnDisk)
        IN /\ socket' = "none"
           /\ process' = "none"
           /\ procAlive' = IF process = "set" THEN FALSE ELSE procAlive
           /\ socket_path' = IF unlinkSock THEN "none" ELSE socket_path
           /\ sockOnDisk' = IF unlinkSock THEN FALSE ELSE sockThere
           /\ audio_file' = IF unlinkAudio THEN "none" ELSE audio_file
           /\ audioOnDisk' = IF unlinkAudio THEN FALSE ELSE audioOnDisk
           /\ duration' = 0
           /\ life' = "stopped"
           /\ playing' = 0
           /\ lastStop' = [from |-> life,
                           proc |-> IF process = "none" THEN "none"
                                    ELSE IF ~procAlive THEN "exited"
                                    ELSE IF how = "ignores" THEN "killed" ELSE "terminated",
                           ipc |-> socket]
           /\ UNCHANGED <<orphanProcs, orphanSocks, orphanAudio, leakedAudio>>

\* faulty variant: a player that never reports a running process
never_active == FALSE

\* Player.is_active (player.py 261-263)
is_active == process = "set" /\ procAlive

\* ---- PlaybackWorker (tray.py) ----
\* no slot call delivered yet; no control-channel call made yet
NoCmd == [cmd |-> "none", inflight |-> FALSE]
NoCall == [op |-> "none"]
NoResolve == [ran |-> FALSE]
NoCtl == [got |-> FALSE, via |-> "none"]
NoRx == [peer |-> "none", bit |-> 0]

\* faulty variants of the three operators below; the properties tell them apart
next_index_skip(i) == i + 2
next_index_stay(i) == i
new_tracks_tail(q, radio_tracks) ==
    LET NotLast(t) == t # q[Len(q)] IN SelectSeq(radio_tracks, NotLast)
index_step_back(idx, rest) == IF idx >= Len(rest) THEN Len(rest) - 1 ELSE idx

\* `self._queue_index += 1` (tray.py 777)
next_index(i) == i + 1

\* the filter of _fetch_radio (tray.py 797-799): ids already anywhere in the queue
new_tracks(q, radio_tracks) ==
    LET Fresh(t) == t \notin Range(q) IN SelectSeq(radio_tracks, Fresh)

\* the index after the disliked track left the queue
\* (tray.py 904-905, main.py 233-234 and 580-581)
index_after_removal(idx, rest) == IF idx >= Len(rest) THEN Len(rest) ELSE idx

Init ==
    /\ queue \in InitQueues
    /\ queue_index = 0
    /\ paused = FALSE
    /\ radio_mode \in BOOLEAN
    /\ poll_timer = FALSE
    /\ stopped = FALSE
    /\ process = "none" /\ socket_path = "none" /\ socket = "none"
    /\ duration = 0 /\ audio_file = "none"
    /\ procAlive = FALSE /\ sockOnDisk = FALSE /\ audioOnDisk = FALSE
    /\ orphanProcs = 0 /\ orphanSocks = 0 /\ orphanAudio = 0 /\ leakedAudio = 0
    /\ life = "new" /\ lastStop = NoStop /\ playing = 0
    /\ mode \in {"tray", "search", "playlist"}
    /\ pending = <<>> /\ last = NoCmd /\ phase = "running" /\ call = NoCall
    /\ resolver = NoResolve /\ ctl = NoCtl /\ tries = 0 /\ rx = NoRx
    /\ now_playing = FALSE /\ mpv_pause = FALSE /\ depth = 0
    /\ pc = IF mode = "tray" THEN "start" ELSE "cli_loop"
    /\ events = {}
    /\ naturalOnly = TRUE /\ playLog = <<>> /\ radioKey = 0 /\ radioRet = <<>>

\* a handler begins: a user command ends the natural-only history
Begin(user) ==
    /\ naturalOnly' = (naturalOnly /\ ~user)
    /\ radioKey' = 0 /\ radioRet' = <<>>

\* _advance_queue (tray.py 773-783), entered with `ev` already emitted
AdvanceQueue(ev) ==
    IF stopped
    THEN /\ queue_index' = queue_index
         /\ pc' = "idle"
         /\ events' = ev
    ELSE /\ queue_index' = next_index(queue_index)
         /\ IF next_index(queue_index) < Len(queue)
            THEN pc' = "play_current" /\ events' = ev
            ELSE IF radio_mode
                 THEN pc' = "fetch_radio" /\ events' = ev
                 ELSE pc' = "idle" /\ events' = ev \cup {"playback_finished"}

\* start_playback (tray.py 728-734)
StartPlayback ==
    /\ pc = "start"
    /\ Begin(FALSE)
    /\ IF queue = <<>>
       THEN /\ pc' = "idle" /\ events' = {"playback_finished"}
            /\ queue_index' = queue_index
       ELSE /\ pc' = "play_current" /\ events' = {}
            /\ queue_index' = 0
    /\ playLog' = playLog
    /\ UNCHANGED <<queue, paused, radio_mode, poll_timer, stopped, front, playerAll>>

\* faulty variant: only the end of the queue ends playback
past_the_end == queue_index >= Len(queue)

\* `if self._stopped or self._queue_index >= len(self._queue)` (tray.py 738)
nothing_to_play == stopped \/ queue_index >= Len(queue)

\* _play_current up to the call of Player.play (tray.py 736-750)
PlayCurrent ==
    /\ pc = "play_current"
    /\ radioKey' = 0 /\ radioRet' = <<>>
    /\ IF nothing_to_play
       THEN /\ pc' = "idle"
            /\ events' = events \cup {"playback_finished"}
            /\ UNCHANGED <<queue_index, playLog>>
       ELSE IF queue[queue_index + 1] = 0
            THEN /\ AdvanceQueue(events \cup {"error_occurred"})
                 /\ UNCHANGED playLog
            ELSE /\ pc' = "play_stop"
                 /\ playLog' = IF naturalOnly THEN Append(playLog, queue[queue_index + 1])
                               ELSE playLog
                 /\ UNCHANGED <<queue_index, events>>
    /\ UNCHANGED <<queue, paused, radio_mode, poll_timer, stopped, front,
                   naturalOnly, playerAll>>

radio_retry ==
    /\ pc' = "fetch_radio"
    /\ UNCHANGED <<queue, events>>

\* `if not new_tracks: self.playback_finished.emit()` (tray.py 801-803)
radio_exhausted ==
    /\ pc' = "idle"
    /\ events' = events \cup {"playback_finished"}
    /\ UNCHANGED queue

\* _fetch_radio (tray.py 785-806)
FetchRadio ==
    /\ pc = "fetch_radio"
    /\ \E radio_tracks \in RadioResults(queue) :
        IF queue = <<>> \/ queue[Len(queue)] = 0
        THEN /\ pc' = "idle"
             /\ events' = events \cup {"playback_finished"}
             /\ UNCHANGED <<queue, radioKey, radioRet>>
        ELSE LET added == new_tracks(queue, radio_tracks)
             IN /\ radioKey' = queue[Len(queue)]
                /\ radioRet' = radio_tracks
                /\ IF added = <<>>
                   THEN radio_exhausted
                   ELSE /\ queue' = queue \o added
                        /\ pc' = "play_current"
                        /\ UNCHANGED events
    /\ UNCHANGED <<queue_index, paused, radio_mode, poll_timer, stopped, front,
                   naturalOnly, playLog, playerAll>>

\* ---- Player.play (player.py 178-218), one step per blocking call ----
\* self.stop()
PlayStop ==
    /\ pc = "play_stop"
    /\ PlayerStop
    /\ pc' = "play_download"
    /\ UNCHANGED <<workerVars, front, events, histVars>>

\* _download_audio and the raise when it fails; the caller's except clause
\* (tray.py 769-771, main.py 259-261 and 601-602) follows in the same step
play_download(r, dur) ==
    /\ pc = "play_download"
    /\ IF r.done
       THEN /\ audio_file' = "set"
            /\ audioOnDisk' = TRUE
            /\ duration' = dur
            /\ orphanAudio' = orphanAudio + (IF audioOnDisk THEN 1 ELSE 0)
            /\ life' = "session"
            /\ pc' = "play_spawn"
            /\ UNCHANGED <<leakedAudio, queue_index, events>>
       ELSE /\ r.file = "data" => leakedAudio < MaxLeak
            /\ duration' = 0
            /\ leakedAudio' = leakedAudio + (IF r.file = "data" THEN 1 ELSE 0)
            /\ life' = "failed"
            /\ UNCHANGED <<audio_file, audioOnDisk, orphanAudio>>
            /\ IF mode = "tray"
               THEN AdvanceQueue(events \cup {"error_occurred"})
               ELSE pc' = "cli_fail" /\ UNCHANGED <<queue_index, events>>
    /\ UNCHANGED <<queue, paused, radio_mode, poll_timer, stopped,
                   process, socket_path, socket, procAlive, sockOnDisk,
                   orphanProcs, orphanSocks, histVars, playing>>
    /\ lastStop' = NoStop

PlayDownload ==
    /\ \E r \in DownloadResults, dur \in 0..1 : play_download(r, dur)
    /\ UNCHANGED front

\* a fresh endpoint path and the mpv subprocess
PlaySpawn ==
    /\ pc = "play_spawn"
    /\ socket_path' = "set"
    /\ orphanSocks' = orphanSocks + (IF sockOnDisk THEN 1 ELSE 0)
    /\ sockOnDisk' = FALSE
    /\ process' = "set"
    /\ orphanProcs' = orphanProcs + (IF procAlive THEN 1 ELSE 0)
    /\ procAlive' = TRUE
    /\ pc' = "play_wait"
    /\ mpv_pause' = FALSE
    /\ UNCHANGED <<workerVars, mode, depth, pending, last, phase, call, resolver, back, now_playing,
                   events, histVars,
                   socket, duration, audio_file, audioOnDisk, orphanAudio, leakedAudio,
                   life, lastStop>>
    /\ playing' = queue[queue_index + 1]

\* the wait for the endpoint: connect when it exists, give up when it never shows
PlayWait ==
    /\ pc = "play_wait"
    /\ \E ok \in BOOLEAN :
          socket' = IF sockOnDisk THEN connect_ipc(ok) ELSE socket
    /\ pc' = IF mode = "tray" THEN "play_started" ELSE "cli_playing"
    /\ paused' = IF mode = "tray" THEN paused ELSE FALSE
    /\ UNCHANGED <<queue, queue_index, radio_mode, poll_timer, stopped, front,
                   events, histVars, process, socket_path, duration, audio_file, osVars, plHist>>

\* the rest of _play_current after Player.play returned (tray.py 751-768)
PlayStarted ==
    /\ pc = "play_started"
    /\ PlayerSend1
    /\ paused' = FALSE
    /\ events' = events \cup {"track_changed", "playback_started"}
    /\ poll_timer' = TRUE
    /\ pc' = "idle"
    /\ UNCHANGED <<queue, queue_index, radio_mode, stopped, front, histVars>>

\* ---- environment: the mpv subprocess ----
\* mpv creates its endpoint file some time after it started
MpvCreatesSocket ==
    /\ process = "set" /\ procAlive /\ socket_path = "set" /\ ~sockOnDisk
    /\ sockOnDisk' = TRUE
    /\ UNCHANGED <<workerVars, playerVars, ctlVars, histVars, plHist,
                   procAlive, audioOnDisk, orphanProcs, orphanSocks, orphanAudio, leakedAudio>>

\* the track ends or mpv dies; it may remove its endpoint file on the way out
MpvExits ==
    /\ process = "set" /\ procAlive
    /\ procAlive' = FALSE
    /\ \E unlinks \in BOOLEAN : sockOnDisk' = (sockOnDisk /\ ~unlinks)
    /\ UNCHANGED <<workerVars, playerVars, ctlVars, histVars, plHist,
                   audioOnDisk, orphanProcs, orphanSocks, orphanAudio, leakedAudio>>

\* ---- PlaybackWorker slots ----
\* the worker waits for the next queued call; after request_stop the
\* application quits (tray.py 585-587, 1066) and no further slot runs
Idle == mode = "tray" /\ pc = "idle" /\ ~stopped

\* _write_now_playing (tray.py 61-67): the file exists afterwards
write_now_playing == TRUE

\* _clear_now_playing (tray.py 70-75)
clear_now_playing == FALSE

\* _poll_tick (tray.py 808-832) but for the snapshot file
poll_tick ==
    /\ Begin(FALSE)
    /\ playLog' = playLog
    /\ IF stopped
       THEN /\ events' = {}
            /\ UNCHANGED <<pc, queue_index, poll_timer, playerAll>>
       ELSE IF is_active
            THEN /\ PlayerSend2
                 /\ events' = {"progress_updated"}
                 /\ UNCHANGED <<pc, queue_index, poll_timer>>
            ELSE /\ poll_timer' = FALSE
                 /\ AdvanceQueue({})
                 /\ UNCHANGED <<playerAll>>
    /\ UNCHANGED <<queue, paused, radio_mode, stopped>>

\* the snapshot file after _poll_tick (tray.py 816-823): written in the branch
\* of an active player
tick_snapshot == IF ~stopped /\ is_active THEN write_now_playing ELSE now_playing

\* the tick as the queue logic sees it; the snapshot file is followed in SpecQ
PollTick ==
    /\ Idle /\ poll_timer
    /\ poll_tick
    /\ UNCHANGED front

\* the tick with the snapshot file
PollTickFile ==
    /\ Idle /\ poll_timer
    /\ poll_tick
    /\ now_playing' = tick_snapshot
    /\ UNCHANGED ingress

\* toggle_pause (tray.py 834-841)
toggle_pause ==
    /\ Begin(TRUE)
    /\ playLog' = <<>>
    /\ PlayerSend1
    /\ paused' = ~paused
    /\ events' = {}
    /\ UNCHANGED <<queue, queue_index, radio_mode, poll_timer, stopped, pc>>

TogglePause ==
    /\ Idle
    /\ toggle_pause
    /\ UNCHANGED front

\* seek_forward, seek_backward (tray.py 858-864): one Player.seek command.
\* seek_to, set_volume, request_devices and set_output_device call Player methods
\* that player.py does not define; they act on the host mixer, not on this state.
seek ==
    /\ Begin(TRUE)
    /\ playLog' = <<>>
    /\ PlayerSend1
    /\ events' = {}
    /\ UNCHANGED <<workerVars, pc>>

Seek ==
    /\ Idle
    /\ seek
    /\ UNCHANGED front

\* next_track (tray.py 843-848)
next_track ==
    /\ Begin(TRUE)
    /\ playLog' = <<>>
    /\ PlayerStop
    /\ poll_timer' = FALSE
    /\ AdvanceQueue({})
    /\ UNCHANGED <<queue, paused, radio_mode, stopped>>

NextTrack ==
    /\ Idle
    /\ queue_index < Len(queue) + MaxOver
    /\ next_track
    /\ UNCHANGED front

\* prev_track (tray.py 850-856)
prev_track ==
    /\ Begin(TRUE)
    /\ playLog' = <<>>
    /\ PlayerStop
    /\ poll_timer' = FALSE
    /\ queue_index' = IF queue_index - 1 > 0 THEN queue_index - 1 ELSE 0
    /\ pc' = "play_current"
    /\ events' = {}
    /\ UNCHANGED <<queue, paused, radio_mode, stopped>>

PrevTrack ==
    /\ Idle
    /\ prev_track
    /\ UNCHANGED front

rate_failed_stops(ev) ==
    /\ events' = {ev}
    /\ PlayerStop
    /\ poll_timer' = FALSE
    /\ UNCHANGED <<queue, queue_index, pc>>

\* rate_result.emit(rating, False) and nothing after it (tray.py 893, 900-901)
rate_failed(ev) ==
    /\ events' = {ev}
    /\ UNCHANGED <<queue, queue_index, poll_timer, pc, playerAll>>

\* rate_like (tray.py 887-893)
rate_like ==
    /\ Begin(TRUE)
    /\ playLog' = <<>>
    /\ \E outcome \in RateOutcomes :
        IF queue_index < Len(queue) /\ queue[queue_index + 1] # 0
        THEN IF rate_song(outcome)
             THEN /\ events' = {"rate_like_ok"}
                  /\ UNCHANGED <<queue, queue_index, poll_timer, pc, playerAll>>
             ELSE rate_failed("rate_like_failed")
        ELSE /\ events' = {}
             /\ UNCHANGED <<queue, queue_index, poll_timer, pc, playerAll>>
    /\ UNCHANGED <<paused, radio_mode, stopped>>

RateLike ==
    /\ Idle
    /\ rate_like
    /\ UNCHANGED front

\* rate_dislike (tray.py 895-909)
\* faulty variant: the disliked track stays in the queue
without_none(q, vid) == q

\* the queue without every track of that id (tray.py 903)
without(q, vid) == LET Other(t) == t # vid IN SelectSeq(q, Other)

rate_dislike ==
    /\ Begin(TRUE)
    /\ playLog' = <<>>
    /\ \E outcome \in RateOutcomes :
        IF queue_index < Len(queue) /\ queue[queue_index + 1] # 0
        THEN IF rate_song(outcome)
             THEN LET vid == queue[queue_index + 1]
                      rest == without(queue, vid)
                  IN /\ events' = {"rate_dislike_ok"}
                     /\ queue' = rest
                     /\ queue_index' = index_after_removal(queue_index, rest)
                     /\ PlayerStop
                     /\ poll_timer' = FALSE
                     /\ pc' = "play_current"
             ELSE rate_failed("rate_dislike_failed")
        ELSE /\ events' = {}
             /\ UNCHANGED <<queue, queue_index, poll_timer, pc, playerAll>>
    /\ UNCHANGED <<paused, radio_mode, stopped>>

RateDislike ==
    /\ Idle
    /\ rate_dislike
    /\ UNCHANGED front

\* do_search (tray.py 911-926) up to the call of api.search
\* faulty variant: the search is made while the current track keeps playing
do_search_playing ==
    /\ Begin(TRUE)
    /\ playLog' = <<>>
    /\ lastStop' = NoStop
    /\ events' = {}
    /\ pc' = "search"
    /\ UNCHANGED <<queue, queue_index, paused, radio_mode, stopped, poll_timer,
                   playerVars, osVars, life, playing>>

do_search ==
    /\ Begin(TRUE)
    /\ playLog' = <<>>
    /\ PlayerStop
    /\ poll_timer' = FALSE
    /\ events' = {}
    /\ pc' = "search"
    /\ UNCHANGED <<queue, queue_index, paused, radio_mode, stopped>>

DoSearch ==
    /\ Idle
    /\ do_search
    /\ UNCHANGED front

replace_keeps_radio(results) ==
    /\ queue' = results
    /\ queue_index' = 0
    /\ UNCHANGED radio_mode

\* the wholesale swap of do_search (tray.py 923-925)
replace(results) ==
    /\ queue' = results
    /\ queue_index' = 0
    /\ radio_mode' = FALSE

\* api.search returned or raised, and the rest of do_search (tray.py 918-926)
SearchDone ==
    /\ pc = "search"
    /\ \/ \* api.search raised: the slot ends with the player stopped
          /\ pc' = "idle"
          /\ UNCHANGED <<queue, queue_index, radio_mode, events>>
       \/ \E results \in SearchResults :
             IF results = <<>>
             THEN /\ events' = {"error_occurred"}
                  /\ pc' = "idle"
                  /\ UNCHANGED <<queue, queue_index, radio_mode>>
             ELSE /\ replace(results)
                  /\ pc' = "play_current"
                  /\ UNCHANGED events
    /\ UNCHANGED <<paused, poll_timer, stopped, front, histVars, playerAll>>

\* request_stop (tray.py 928-934) but for the snapshot file
request_stop ==
    /\ Begin(TRUE)
    /\ playLog' = <<>>
    /\ stopped' = TRUE
    /\ poll_timer' = FALSE
    /\ PlayerStop
    /\ events' = {}
    /\ UNCHANGED <<queue, queue_index, paused, radio_mode, pc>>

\* the last slot of a run; the snapshot file is followed in SpecQ
RequestStop ==
    /\ Idle
    /\ request_stop
    /\ UNCHANGED front

TrayNext ==
    \/ StartPlayback \/ PlayCurrent \/ FetchRadio
    \/ PlayStop \/ PlayDownload \/ PlaySpawn \/ PlayWait \/ PlayStarted
    \/ MpvCreatesSocket \/ MpvExits
    \/ PollTick \/ TogglePause \/ Seek \/ NextTrack \/ PrevTrack
    \/ RateLike \/ RateDislike \/ DoSearch \/ SearchDone \/ RequestStop

\* ---- interactive queue loops (main.py play_with_progress 182-264,
\* _play_playlist_interactive 530-605); mode "search" is the first ----
Cli == mode # "tray"

\* `while queue_index < len(queue)`: play the current track, or leave the loop:
\* "finished" is printed and the caller's finally clause stops the player
CliLoop ==
    /\ Cli /\ pc = "cli_loop"
    /\ IF queue_index < Len(queue)
       THEN /\ pc' = "play_stop"
            /\ playLog' = IF naturalOnly THEN Append(playLog, queue[queue_index + 1])
                          ELSE playLog
            /\ UNCHANGED <<events, playerAll>>
       ELSE /\ pc' = "cli_done"
            /\ events' = events \cup {"playback_finished"}
            /\ PlayerStop
            /\ UNCHANGED playLog
    /\ UNCHANGED <<workerVars, front, naturalOnly, radioKey, radioRet>>

\* Player.play raised: main.py 259-261 (stop, return None: nothing is printed)
\* and 601-602 (stop in `finally`, the exception leaves the command)
CliFail ==
    /\ Cli /\ pc = "cli_fail"
    /\ PlayerStop
    /\ pc' = "cli_done"
    /\ events' = IF mode = "playlist" THEN events \cup {"error_occurred"} ELSE events
    /\ UNCHANGED <<workerVars, front, histVars>>

\* `while player.is_active()` ... `else`: the song finished naturally
CliNatural ==
    /\ Cli /\ pc = "cli_playing" /\ ~is_active
    /\ queue_index' = queue_index + 1
    /\ pc' = "cli_loop"
    /\ events' = {}
    /\ UNCHANGED <<queue, paused, radio_mode, poll_timer, stopped, front, playerAll,
                   histVars>>

\* no key, or a key without a binding: the progress display reads the position
CliProgress ==
    /\ Cli /\ pc = "cli_playing" /\ is_active
    /\ PlayerSend2
    /\ UNCHANGED <<workerVars, ctlVars, histVars>>

\* key " "
CliKeyPause ==
    /\ Cli /\ pc = "cli_playing" /\ is_active
    /\ Begin(TRUE) /\ playLog' = <<>>
    /\ socket' \in {send_command(send_command(send_command(socket, ok1, o1), ok2, o2), ok3, o3) :
                       ok1 \in BOOLEAN, o1 \in CmdOutcomes, ok2 \in BOOLEAN, o2 \in CmdOutcomes,
                       ok3 \in BOOLEAN, o3 \in CmdOutcomes}
    /\ paused' = ~paused
    /\ events' = {}
    /\ lastStop' = NoStop
    /\ UNCHANGED <<queue, queue_index, radio_mode, poll_timer, stopped, front, pc,
                   process, socket_path, duration, audio_file, osVars, life, playing>>

\* key "n"
CliKeyNext ==
    /\ Cli /\ pc = "cli_playing" /\ is_active
    /\ Begin(TRUE) /\ playLog' = <<>>
    /\ PlayerStop
    /\ queue_index' = queue_index + 1
    /\ pc' = "cli_loop"
    /\ events' = {}
    /\ UNCHANGED <<queue, paused, radio_mode, poll_timer, stopped, front>>

\* `queue_index = max(0, queue_index - 1)` (main.py 217, 565)
back_one(i) == IF i - 1 > 0 THEN i - 1 ELSE 0

\* key "p"
CliKeyPrev ==
    /\ Cli /\ pc = "cli_playing" /\ is_active
    /\ Begin(TRUE) /\ playLog' = <<>>
    /\ PlayerStop
    /\ queue_index' = back_one(queue_index)
    /\ pc' = "cli_loop"
    /\ events' = {}
    /\ UNCHANGED <<queue, paused, radio_mode, poll_timer, stopped, front>>

\* key "+"
CliKeyLike ==
    /\ Cli /\ pc = "cli_playing" /\ is_active
    /\ Begin(TRUE) /\ playLog' = <<>>
    /\ \E outcome \in RateOutcomes :
          events' = {IF queue[queue_index + 1] # 0 /\ rate_song(outcome)
                     THEN "rate_like_ok" ELSE "rate_like_failed"}
    /\ PlayerSend2
    /\ UNCHANGED <<workerVars, front, pc>>

\* key "-"
CliKeyDislike ==
    /\ Cli /\ pc = "cli_playing" /\ is_active
    /\ Begin(TRUE) /\ playLog' = <<>>
    /\ \E outcome \in RateOutcomes :
        IF queue[queue_index + 1] # 0 /\ rate_song(outcome)
        THEN LET vid == queue[queue_index + 1]
                 Other(t) == t # vid
                 rest == SelectSeq(queue, Other)
             IN /\ events' = {"rate_dislike_ok"}
                /\ queue' = rest
                /\ PlayerStop
                /\ queue_index' = index_after_removal(queue_index, rest)
                /\ pc' = "cli_loop"
        ELSE /\ events' = {"rate_dislike_failed"}
             /\ PlayerSend2
             /\ UNCHANGED <<queue, queue_index, pc>>
    /\ UNCHANGED <<paused, radio_mode, poll_timer, stopped, front>>

\* Ctrl+C in either loop, "/" in play_with_progress: stop and leave
CliKeyLeave ==
    /\ Cli /\ pc = "cli_playing" /\ is_active
    /\ Begin(TRUE) /\ playLog' = <<>>
    /\ PlayerStop
    /\ pc' = "cli_done"
    /\ events' = {}
    /\ UNCHANGED <<workerVars, front>>

CliNext ==
    \/ CliLoop \/ CliFail \/ CliNatural \/ CliProgress \/ CliKeyPause
    \/ CliKeyNext \/ CliKeyPrev \/ CliKeyLike \/ CliKeyDislike \/ CliKeyLeave

Next == TrayNext \/ CliNext

Spec == Init /\ [][Next]_vars

\* ---- the control channel as a caller of the Player sees it
\* (player.py 141-176, 254-320) ----
\* what the peer does with one command: it answers a JSON object, the send or
\* the receive fails (socket.error, timeout), it closes the connection without
\* answering, or it answers bytes that are not JSON, bytes that are not UTF-8,
\* or a JSON number where an object is expected
PeerOutcomes == CmdOutcomes \cup {"badutf8", "number"}

\* the `data` of an answer to get_property: "None" is an answer without data
PauseData == {"True", "False", "None"}
NumberData == {"number", "None"}

\* _send_command (player.py 141-164): the _socket it leaves, what it returns and
\* whether an exception leaves it.  A subprocess that is gone answers nothing:
\* the command fails or reads end-of-file.
transact(sock, ok, o) ==
    LET s1 == IF sock = "none" THEN connect_ipc(ok) ELSE sock
        e == IF procAlive \/ o \in {"error", "eof"} THEN o ELSE "error"
    IN IF s1 = "none"
       THEN [sock |-> "none", outcome |-> "unreachable", result |-> "None", raised |-> FALSE]
       ELSE [sock |-> IF e \in {"error", "badjson"} THEN "none" ELSE s1,
             outcome |-> e,
             result |-> IF e = "ok" THEN "object" ELSE IF e = "number" THEN "number" ELSE "None",
             raised |-> e = "badutf8"]

\* _get_property (player.py 166-171): `"data" in result` raises on a number
get_property(sock, ok, o, data) ==
    LET t == transact(sock, ok, o)
    IN [sock |-> t.sock, outcome |-> t.outcome,
        value |-> IF t.result = "object" THEN data ELSE "None",
        raised |-> t.raised \/ t.result = "number"]

\* _set_property (player.py 173-176): `result.get` raises on a number
set_property(sock, ok, o, success) ==
    LET t == transact(sock, ok, o)
    IN [sock |-> t.sock, outcome |-> t.outcome,
        value |-> IF t.result = "object" /\ success THEN "True" ELSE "False",
        raised |-> t.raised \/ t.result = "number"]

Reads == {"is_playing", "toggle_pause", "get_position", "get_duration", "get_volume"}
Ops == Reads \cup {"set_property"}

\* what each read returns when _get_property gave None (player.py 254-320);
\* "cached" is self._duration, the length the resolver reported
default(op) ==
    CASE op = "is_playing" -> "False"
      [] op = "toggle_pause" -> "False"
      [] op = "get_position" -> "0.0"
      [] op = "get_duration" -> "cached"
      [] op = "get_volume" -> "100"
      [] op = "set_property" -> "False"

\* one call of the Player's API: what it returns ("exception" when it raises),
\* the _socket it leaves and the outcome of its first command ("unsent": none)
PlayerCall(op, ok, o, data, ok2, o2, success) ==
    IF op = "set_property"
    THEN LET r == set_property(socket, ok, o, success)
         IN [sock |-> r.sock, outcome |-> r.outcome,
             ret |-> IF r.raised THEN "exception" ELSE r.value]
    ELSE IF op = "is_playing" /\ ~is_active
    THEN [sock |-> socket, outcome |-> "unsent", ret |-> "False"]
    ELSE LET g == get_property(socket, ok, o, data)
         IN IF g.raised
            THEN [sock |-> g.sock, outcome |-> g.outcome, ret |-> "exception"]
            ELSE IF g.value = "None"
            THEN [sock |-> g.sock, outcome |-> g.outcome, ret |-> default(op)]
            ELSE IF op = "is_playing"
            THEN [sock |-> g.sock, outcome |-> g.outcome,
                  ret |-> IF g.value = "False" THEN "True" ELSE "False"]
            ELSE IF op = "toggle_pause"
            THEN LET r == set_property(g.sock, ok2, o2, success)
                 IN [sock |-> r.sock, outcome |-> g.outcome,
                     ret |-> IF r.raised THEN "exception"
                             ELSE IF g.value = "True" THEN "False" ELSE "True"]
            ELSE [sock |-> g.sock, outcome |-> g.outcome, ret |-> "value"]

\* ---- a caller that holds a Player and uses its API in any order ----
AtCaller == mode = "client" /\ pc \in {"cli_loop", "cli_playing", "cli_fail"}

InitPlayer ==
    /\ queue = <<1>> /\ queue_index = 0
    /\ paused = FALSE /\ radio_mode = FALSE /\ poll_timer = FALSE /\ stopped = FALSE
    /\ process = "none" /\ socket_path = "none" /\ socket = "none"
    /\ duration = 0 /\ audio_file = "none"
    /\ procAlive = FALSE /\ sockOnDisk = FALSE /\ audioOnDisk = FALSE
    /\ orphanProcs = 0 /\ orphanSocks = 0 /\ orphanAudio = 0 /\ leakedAudio = 0
    /\ life = "new" /\ lastStop = NoStop /\ playing = 0
    /\ mode = "client" /\ pc = "cli_loop" /\ events = {}
    /\ naturalOnly = TRUE /\ playLog = <<>> /\ radioKey = 0 /\ radioRet = <<>>
    /\ pending = <<>> /\ last = NoCmd /\ phase = "running" /\ call = NoCall
    /\ resolver = NoResolve /\ ctl = NoCtl /\ tries = 0 /\ rx = NoRx
    /\ now_playing = FALSE /\ mpv_pause = FALSE /\ depth = 0

\* the caller enters Player.play (player.py 178)
ClientPlay ==
    /\ AtCaller
    /\ pc' = "play_stop"
    /\ call' = NoCall
    /\ UNCHANGED <<workerVars, playerAll, histVars, events, setting, pending, last, phase, resolver, back, now_playing>>

\* the caller calls Player.stop (player.py 220)
ClientStop ==
    /\ AtCaller
    /\ PlayerStop
    /\ call' = NoCall
    /\ UNCHANGED <<workerVars, histVars, events, setting, pending, last, phase, resolver, back, now_playing, pc>>

\* the caller makes one of the calls of player.py 254-320
ClientCall ==
    /\ AtCaller
    /\ \E op \in Ops, ok \in BOOLEAN, o \in PeerOutcomes, ok2 \in BOOLEAN, o2 \in PeerOutcomes,
          success \in BOOLEAN :
         \E data \in (IF op \in {"is_playing", "toggle_pause"} THEN PauseData ELSE NumberData) :
            LET r == PlayerCall(op, ok, o, data, ok2, o2, success)
            IN /\ socket' = r.sock
               /\ call' = [op |-> op, before |-> socket, outcome |-> r.outcome, ret |-> r.ret]
    /\ pc' = "returned"
    /\ lastStop' = NoStop
    /\ UNCHANGED <<workerVars, histVars, events, setting, pending, last, phase, resolver, back, now_playing,
                   process, socket_path, duration, audio_file, osVars, life, playing>>

\* the call is over; the caller goes on
ClientReturn ==
    /\ mode = "client" /\ pc = "returned"
    /\ pc' = "cli_playing"
    /\ call' = NoCall
    /\ UNCHANGED <<workerVars, playerAll, histVars, events, setting, pending, last, phase, resolver, back, now_playing>>

PlayerNext ==
    \/ ClientPlay \/ PlayStop \/ PlayDownload \/ PlaySpawn \/ PlayWait
    \/ ClientStop \/ ClientCall \/ ClientReturn
    \/ MpvCreatesSocket \/ MpvExits

SpecPlayer == InitPlayer /\ [][PlayerNext]_vars

\* ---- Player.play's wait and _send_command's read loop, iteration by iteration ----
\* `for _ in range(20)` (player.py 211)
PollTries == 20
\* `limit=50` of the radio request (tray.py 798)
RadioLimit == 50
\* frames the interpreter allows before it raises RecursionError (CPython's
\* default; nothing in the package changes it)
RecursionLimit == 1000

\* faulty variant: a wait that does not count its iterations
poll_stuck(n) == n

\* one more iteration of the wait has found no endpoint (player.py 211, 216)
poll_again(n) == n + 1

\* the endpoint is not there: sleep 0.1 s and look again (player.py 212, 216)
WaitPoll ==
    /\ mode = "client" /\ pc = "play_wait"
    /\ tries < PollTries /\ ~sockOnDisk
    /\ tries' = poll_again(tries)
    /\ UNCHANGED <<workerVars, playerAll, histVars, pc, events, setting, pending, last, phase,
                   call, resolver, ctl, rx, now_playing>>

\* what Player.play leaves when it returns (player.py 218)
play_returns(found, ok, polls) ==
    /\ pc' = "cli_playing"
    /\ call' = [op |-> "play", ret |-> duration, polls |-> polls, found |-> found, ok |-> ok]
    /\ tries' = 0
    /\ paused' = FALSE
    /\ UNCHANGED <<queue, queue_index, radio_mode, poll_timer, stopped, histVars, events,
                   setting, pending, last, phase, resolver, ctl, rx, now_playing,
                   process, socket_path, duration, audio_file, osVars, plHist>>

\* the endpoint is there: sleep, one _connect_ipc(), leave the loop (player.py 212-215)
WaitConnect ==
    /\ mode = "client" /\ pc = "play_wait"
    /\ tries < PollTries /\ sockOnDisk
    /\ \E ok \in BOOLEAN :
          /\ socket' = connect_ipc(ok)
          /\ play_returns(TRUE, ok, tries + 1)

\* the loop has run out (player.py 211)
WaitGiveUp ==
    /\ mode = "client" /\ pc = "play_wait"
    /\ tries >= PollTries
    /\ socket' = socket
    /\ play_returns(FALSE, FALSE, tries)

\* how the subprocess behaves on the channel during one command: it answers with
\* a line, sends nothing, closes the connection, or sends data with no line break
Peers == {"answers", "silent", "closes", "streams"}

\* _send_command returns None and Player._get_property the default (player.py 164)
command_fails(sock, found, ok) ==
    /\ socket' = sock
    /\ pc' = "returned"
    /\ call' = [op |-> "get", before |-> socket, found |-> found, ok |-> ok, ret |-> "default"]
    /\ rx' = NoRx

\* _send_command up to its read loop (player.py 141-151): connect when there is
\* no socket, send the request
SendCommand ==
    /\ AtCaller
    /\ \E ok \in BOOLEAN, sent \in BOOLEAN, p \in Peers :
          LET found == socket_path = "set" /\ sockOnDisk
              s1 == IF socket = "none" THEN connect_ipc(ok) ELSE socket
          IN IF s1 = "none" THEN command_fails("none", found, ok)
             ELSE IF ~sent THEN command_fails("none", found, ok)
             ELSE /\ socket' = s1
                  /\ pc' = "recv"
                  /\ call' = [op |-> "get", before |-> socket, found |-> found, ok |-> ok,
                              ret |-> "pending"]
                  /\ rx' = [peer |-> p, bit |-> 0]
    /\ lastStop' = NoStop
    /\ UNCHANGED <<workerVars, histVars, events, setting, pending, last, phase, resolver,
                   ctl, tries, now_playing,
                   process, socket_path, duration, audio_file, osVars, life, playing>>

\* one recv(4096) of the read loop (player.py 152-164); the socket has a timeout
\* of 1 s (player.py 134).  A dead subprocess has closed the connection.
Recv ==
    /\ mode = "client" /\ pc = "recv"
    /\ LET p == IF procAlive THEN rx.peer ELSE "closes"
       IN CASE p = "streams" ->
                 \* a chunk without a line break: `response += chunk`, read again
                 /\ rx' = [rx EXCEPT !.bit = 1 - @]
                 /\ UNCHANGED <<socket, pc, call>>
            [] p = "answers" ->
                 /\ rx' = NoRx /\ pc' = "returned"
                 /\ call' = [call EXCEPT !.ret = "value"]
                 /\ UNCHANGED socket
            [] p = "silent" ->
                 \* socket.timeout, an OSError: the socket is dropped
                 /\ rx' = NoRx /\ pc' = "returned"
                 /\ call' = [call EXCEPT !.ret = "default"]
                 /\ socket' = "none"
            [] p = "closes" ->
                 \* an empty chunk ends the loop with an empty response
                 /\ rx' = NoRx /\ pc' = "returned"
                 /\ call' = [call EXCEPT !.ret = "default"]
                 /\ UNCHANGED socket
    /\ lastStop' = NoStop
    /\ UNCHANGED <<workerVars, histVars, events, setting, pending, last, phase, resolver,
                   ctl, tries, now_playing,
                   process, socket_path, duration, audio_file, osVars, life, playing>>

\* the steps the Player's own thread takes without waiting for anyone
PlayerStep ==
    \/ PlayStop \/ PlayDownload \/ PlaySpawn
    \/ WaitPoll \/ WaitConnect \/ WaitGiveUp \/ Recv

WaitNext ==
    \/ ClientPlay \/ PlayStop \/ PlayDownload \/ PlaySpawn
    \/ WaitPoll \/ WaitConnect \/ WaitGiveUp
    \/ ClientStop \/ SendCommand \/ Recv \/ ClientReturn
    \/ MpvCreatesSocket \/ MpvExits

\* the thread that runs the Player keeps running: time.sleep and recv return
SpecWait == InitPlayer /\ [][WaitNext]_vars /\ WF_vars(PlayerStep)

\* ---- the resolver run by run (player.py 56-125, 178-192) ----
\* Player.play reaches _download_audio; `outs` is what the three yt-dlp runs do
Resolve ==
    /\ mode = "client"
    /\ \E outs \in [1..3 -> Outcomes], dur \in 0..1 :
          /\ play_download(download_audio(outs), dur)
          /\ resolver' = [ran |-> TRUE, outs |-> outs, res |-> download_audio(outs)]
    /\ UNCHANGED <<setting, pending, last, phase, call, back, now_playing>>

ResolverNext ==
    \/ ClientPlay \/ PlayStop \/ Resolve \/ PlaySpawn \/ PlayWait
    \/ ClientStop \/ MpvCreatesSocket \/ MpvExits

SpecResolver == InitPlayer /\ [][ResolverNext]_vars

\* ---- the worker thread's event loop and the main thread (tray.py 993-1092) ----
\* Player.play is between its call and its return
InFlight == pc \in {"play_stop", "play_download", "play_spawn", "play_wait"}

\* the worker thread runs until thread.quit() / thread.wait() (tray.py 1089-1090)
WorkerRuns == phase \in {"running", "quitting", "cleanup"}

\* radio mode is off here: replenishment posts nothing and is covered by Spec
InitQ == Init /\ mode = "tray" /\ ~radio_mode

\* sig_next / sig_prev emitted on the main thread by the popup or by the control
\* server (tray.py 1058-1059): the queued connection posts the slot call
Emit ==
    /\ mode = "tray" /\ phase = "running"
    /\ Len(pending) < MaxPending
    /\ \E c \in {"next", "prev"} :
          pending' = Append(pending, [cmd |-> c, inflight |-> InFlight])
    /\ UNCHANGED <<workerVars, playerAll, histVars, pc, events, setting, last, phase, call, resolver, back, now_playing>>

\* _on_quit and the "quit" command: sig_stop.emit(), QApplication.quit()
\* (tray.py 585-587, 1066); app.exec() returns
EmitQuit ==
    /\ mode = "tray" /\ phase = "running"
    /\ Len(pending) < MaxPending
    /\ pending' = Append(pending, [cmd |-> "stop", inflight |-> InFlight])
    /\ phase' = "quitting"
    /\ UNCHANGED <<workerVars, playerAll, histVars, pc, events, setting, last, call, resolver, back, now_playing>>

\* faulty variant: a direct connection, the slot runs at once in the emitter's thread
worker_any == TRUE

\* the event loop delivers a posted call when the slot before it has returned
worker_free == pc = "idle"

\* the event loop takes the oldest posted call
Deliver(c) ==
    /\ mode = "tray" /\ WorkerRuns /\ worker_free
    /\ pending # <<>> /\ Head(pending).cmd = c
    /\ pending' = Tail(pending)
    /\ last' = Head(pending)
    /\ UNCHANGED <<setting, phase, call, resolver, back>>

\* request_stop with its _clear_now_playing() (tray.py 935)
DeliverStop == Deliver("stop") /\ request_stop /\ now_playing' = clear_now_playing

DeliverNext ==
    /\ Deliver("next")
    /\ queue_index < Len(queue) + MaxOver
    /\ next_track
    /\ UNCHANGED now_playing

DeliverPrev == Deliver("prev") /\ prev_track /\ UNCHANGED now_playing

\* after app.exec(): worker.request_stop() called on the main thread
\* (tray.py 1088), whatever the worker thread is doing
Cleanup ==
    /\ mode = "tray" /\ phase = "quitting"
    /\ stopped' = TRUE
    /\ poll_timer' = FALSE
    /\ PlayerStop
    /\ phase' = "cleanup"
    /\ UNCHANGED <<queue, queue_index, paused, radio_mode, pc, events, histVars,
                   setting, pending, last, call, resolver, back>>
    /\ now_playing' = clear_now_playing

\* thread.quit(); thread.wait() (tray.py 1089-1090): returns when the slot that
\* runs has returned; calls still posted may never run
Join ==
    /\ mode = "tray" /\ phase = "cleanup" /\ pc = "idle"
    /\ phase' = "joined"
    /\ UNCHANGED <<workerVars, playerAll, histVars, pc, events, setting, pending, last, call, resolver, back, now_playing>>

\* player.stop(); _clear_now_playing() (tray.py 1091-1092)
FinalStop ==
    /\ mode = "tray" /\ phase = "joined"
    /\ PlayerStop
    /\ now_playing' = clear_now_playing
    /\ phase' = "done"
    /\ UNCHANGED <<workerVars, histVars, pc, events, setting, pending, last, call, resolver, back>>

QNext ==
    \/ StartPlayback \/ PlayCurrent
    \/ PlayStop \/ PlayDownload \/ PlaySpawn \/ PlayWait \/ PlayStarted
    \/ MpvCreatesSocket \/ MpvExits \/ PollTickFile
    \/ Emit \/ EmitQuit \/ DeliverStop \/ DeliverNext \/ DeliverPrev
    \/ Cleanup \/ Join \/ FinalStop

SpecQ == InitQ /\ [][QNext]_vars

\* ---- the control socket and the popup (tray.py 78-135, 406-587, 1029-1072) ----
\* the command tokens of _dispatch_ctl (tray.py 1058-1066)
Tokens == {"toggle-pause", "next", "prev", "seek-fwd", "seek-back",
           "vol-up", "vol-down", "mute", "quit"}

\* the popup controls that have a token (tray.py 480-501, 558)
Controls == {"btn_play_pause", "btn_next", "btn_prev", "btn_seek_fwd", "btn_seek_back",
             "btn_quit"}

\* a payload is a sequence of pieces: white space, the text of a token, other
\* text ("NEXT"), a byte that is not UTF-8 ("0xFF")
Whitespace == {" ", "LF"}
Words == Tokens \cup {"NEXT", "0xFF"}
Pad(n) == [i \in 1..n |-> IF i % 2 = 1 THEN "LF" ELSE " "]
Bodies == {<<>>} \cup {<<w>> : w \in Words} \cup {<<"next", " ", "prev">>}
\* what conn.recv(256) returns: b"" when the client closed without writing
Payloads == {Pad(l) \o b \o Pad(t) : l \in 0..MaxPad, b \in Bodies, t \in 0..MaxPad}

\* bytes.decode("utf-8", errors="replace") (tray.py 131)
decode(data) == [i \in 1..Len(data) |-> IF data[i] = "0xFF" THEN "U+FFFD" ELSE data[i]]

\* str.strip() (tray.py 131)
RECURSIVE lstrip(_)
lstrip(t) == IF t # <<>> /\ Head(t) \in Whitespace THEN lstrip(Tail(t)) ELSE t
RECURSIVE rstrip(_)
rstrip(t) ==
    IF t # <<>> /\ t[Len(t)] \in Whitespace THEN rstrip(SubSeq(t, 1, Len(t) - 1)) ELSE t
strip(t) == rstrip(lstrip(t))

\* the text is exactly one token
IsToken(cmd) == Len(cmd) = 1 /\ cmd[1] \in Tokens

\* faulty variant: the two seek entries swapped
dispatch_swapped(tok) ==
    CASE tok = "toggle-pause" -> <<"sig_toggle_pause">>
      [] tok = "next" -> <<"sig_next">>
      [] tok = "prev" -> <<"sig_prev">>
      [] tok = "seek-fwd" -> <<"sig_seek_backward">>
      [] tok = "seek-back" -> <<"sig_seek_forward">>
      [] tok \in {"vol-up", "vol-down"} -> <<"sig_set_volume">>
      [] tok = "mute" -> <<>>
      [] tok = "quit" -> <<"sig_stop", "quit">>

\* the dispatch table (tray.py 1057-1067): what the entry of `tok` does, in order
dispatch(tok) ==
    CASE tok = "toggle-pause" -> <<"sig_toggle_pause">>
      [] tok = "next" -> <<"sig_next">>
      [] tok = "prev" -> <<"sig_prev">>
      [] tok = "seek-fwd" -> <<"sig_seek_forward">>
      [] tok = "seek-back" -> <<"sig_seek_backward">>
      [] tok \in {"vol-up", "vol-down"} -> <<"sig_set_volume">>
      [] tok = "mute" -> <<>>
      [] tok = "quit" -> <<"sig_stop", "quit">>

\* faulty variant: an unknown text falls back to the first entry
lookup_default(cmd) == IF IsToken(cmd) THEN dispatch(cmd[1]) ELSE dispatch("toggle-pause")

\* `action = dispatch.get(cmd); if action: action()` (tray.py 1068-1070)
lookup(cmd) == IF IsToken(cmd) THEN dispatch(cmd[1]) ELSE <<>>

\* what a popup control does when clicked (tray.py 480-501, 558, 585-587)
clicked(b) ==
    CASE b = "btn_play_pause" -> <<"sig_toggle_pause">>
      [] b = "btn_next" -> <<"sig_next">>
      [] b = "btn_prev" -> <<"sig_prev">>
      [] b = "btn_seek_fwd" -> <<"sig_seek_forward">>
      [] b = "btn_seek_back" -> <<"sig_seek_backward">>
      [] b = "btn_quit" -> <<"sig_stop", "quit">>

\* the slot a signal of the popup is connected to (tray.py 1030-1040)
slot(sig) ==
    CASE sig = "sig_toggle_pause" -> "toggle_pause"
      [] sig = "sig_next" -> "next"
      [] sig = "sig_prev" -> "prev"
      [] sig = "sig_seek_forward" -> "seek_forward"
      [] sig = "sig_seek_backward" -> "seek_backward"
      [] sig = "sig_set_volume" -> "set_volume"
      [] sig = "sig_stop" -> "stop"

\* the main thread runs `acts` in order: an emitted signal posts its slot call
\* to the worker thread, QApplication.quit() ends app.exec()
RECURSIVE posted(_, _)
posted(acts, q) ==
    IF acts = <<>> THEN q
    ELSE posted(Tail(acts),
                IF Head(acts) = "quit" THEN q
                ELSE Append(q, [cmd |-> slot(Head(acts))]))

run(acts) ==
    /\ pending' = posted(acts, pending)
    /\ phase' = IF \E i \in 1..Len(acts) : acts[i] = "quit" THEN "quitting" ELSE phase

\* the main thread is in its event loop and the worker's queue has room
MainIdle == mode = "tray" /\ phase = "running" /\ Len(pending) < MaxPosted

\* a click on a popup control
Click ==
    /\ MainIdle /\ ~ctl.got
    /\ \E b \in Controls :
          /\ run(clicked(b))
          /\ ctl' = [got |-> FALSE, via |-> "popup"]
    /\ UNCHANGED <<workerVars, playerAll, histVars, pc, events, setting, last, call, resolver,
                   tries, rx, now_playing>>

\* _on_ready_read up to conn.close() (tray.py 121-129)
OnReadyRead ==
    /\ MainIdle /\ ~ctl.got
    /\ \E data \in Payloads : ctl' = [got |-> TRUE, via |-> "read", data |-> data]
    /\ UNCHANGED <<workerVars, playerAll, histVars, pc, events, setting, pending, last, phase,
                   call, resolver, tries, rx, now_playing>>

\* the text _on_ready_read emits, "" when it emits nothing (tray.py 130-133)
received(data) == IF data = <<>> THEN <<>> ELSE strip(decode(data))

\* the rest of _on_ready_read and, through command_received, _dispatch_ctl
\* (tray.py 130-133, 1056-1070)
DispatchCtl ==
    /\ mode = "tray" /\ ctl.got
    /\ run(lookup(received(ctl.data)))
    /\ ctl' = [got |-> FALSE,
               via |-> IF IsToken(received(ctl.data)) THEN "token" ELSE "other"]
    /\ UNCHANGED <<workerVars, playerAll, histVars, pc, events, setting, last, call, resolver,
                   tries, rx, now_playing>>

\* set_volume (tray.py 870-874): the host mixer and the slider
set_volume ==
    /\ Begin(TRUE)
    /\ playLog' = <<>>
    /\ events' = {"volume_changed"}
    /\ UNCHANGED <<workerVars, playerAll, pc>>

\* the worker's event loop takes the oldest posted call and runs its slot
Serve(c) ==
    /\ mode = "tray" /\ WorkerRuns /\ worker_free
    /\ pending # <<>> /\ Head(pending).cmd = c
    /\ pending' = Tail(pending)
    /\ UNCHANGED <<setting, last, phase, call, resolver, back>>

ServeToggle == Serve("toggle_pause") /\ toggle_pause /\ UNCHANGED now_playing

ServeSeek ==
    /\ \E c \in {"seek_forward", "seek_backward"} : Serve(c)
    /\ seek
    /\ UNCHANGED now_playing

ServeVolume == Serve("set_volume") /\ set_volume /\ UNCHANGED now_playing

ServeNext ==
    /\ Serve("next")
    /\ queue_index < Len(queue) + MaxOver
    /\ next_track
    /\ UNCHANGED now_playing

ServePrev == Serve("prev") /\ prev_track /\ UNCHANGED now_playing

ServeStop == Serve("stop") /\ request_stop /\ now_playing' = clear_now_playing

CtlNext ==
    \/ StartPlayback \/ PlayCurrent
    \/ PlayStop \/ PlayDownload \/ PlaySpawn \/ PlayWait \/ PlayStarted
    \/ MpvCreatesSocket \/ MpvExits \/ PollTickFile
    \/ Click \/ OnReadyRead \/ DispatchCtl
    \/ ServeStop \/ ServeNext \/ ServePrev
    \/ ServeToggle \/ ServeSeek \/ ServeVolume
    \/ Cleanup \/ Join \/ FinalStop

\* the ingress does not look at the queue: one track is enough behind it
InitCtl == InitQ /\ Len(queue) = 1

SpecCtl == InitCtl /\ [][CtlNext]_vars

\* the worker rests between two slots
AtRest == mode = "tray" /\ pc = "idle"

\* ---- the worker's slots called in any order, also after request_stop ----
\* (tray.py 808-935); a tick is a timeout of the running timer, or one that was
\* already under way when request_stop stopped the timer.  The snapshot file is
\* followed in SpecQ.
SlotTick ==
    /\ AtRest /\ (poll_timer \/ stopped)
    /\ poll_tick
    /\ UNCHANGED front

SlotTogglePause == AtRest /\ toggle_pause /\ UNCHANGED front

SlotSeek == AtRest /\ seek /\ UNCHANGED front

SlotNext ==
    /\ AtRest
    /\ queue_index < Len(queue) + MaxOver
    /\ next_track
    /\ UNCHANGED front

SlotPrev == AtRest /\ prev_track /\ UNCHANGED front

SlotLike == AtRest /\ rate_like /\ UNCHANGED front

SlotDislike == AtRest /\ rate_dislike /\ UNCHANGED front

SlotSearch == AtRest /\ do_search /\ UNCHANGED front

SlotStop == AtRest /\ request_stop /\ UNCHANGED front

SlotsNext ==
    \/ StartPlayback \/ PlayCurrent \/ FetchRadio
    \/ PlayStop \/ PlayDownload \/ PlaySpawn \/ PlayWait \/ PlayStarted
    \/ MpvCreatesSocket \/ MpvExits
    \/ SlotTick \/ SlotTogglePause \/ SlotSeek \/ SlotNext \/ SlotPrev
    \/ SlotLike \/ SlotDislike \/ SlotSearch \/ SearchDone \/ SlotStop

InitSlots == Init /\ mode = "tray"

SpecSlots == InitSlots /\ [][SlotsNext]_vars

\* ---- properties ----
\* temp audio files on disk: the one _audio_file names, those a replaced path
\* left, and those a failed resolve left
AudioFiles == (IF audioOnDisk THEN 1 ELSE 0) + orphanAudio + leakedAudio
EndpointFiles == (IF sockOnDisk THEN 1 ELSE 0) + orphanSocks
LiveProcs == (IF procAlive THEN 1 ELSE 0) + orphanProcs

\* the step of a successful dislike: the only step that shortens the queue and
\* reports the rating
DislikeOkStep == Len(queue') < Len(queue) /\ events' = {"rate_dislike_ok"}

\* C1: whenever the tray worker rests between commands, 0 <= _queue_index <= len(_queue),
\* also when next_track is issued after the queue has finished.
C1_IndexWithinQueue == AtRest => (0 <= queue_index /\ queue_index <= Len(queue))

\* C2: at any time at most one player subprocess, one IPC endpoint file and one temp
\* audio file exist, and Player.play() downloads and spawns only after the previous
\* Session is torn down.
C2_AtMostOneSession ==
    /\ LiveProcs <= 1 /\ EndpointFiles <= 1 /\ AudioFiles <= 1
    /\ pc = "play_download" => (LiveProcs = 0 /\ socket = "none" /\ EndpointFiles = 0
                                 /\ ~audioOnDisk /\ orphanAudio = 0)
    /\ pc = "play_spawn" => (LiveProcs = 0 /\ socket = "none" /\ EndpointFiles = 0
                              /\ orphanAudio = 0)

\* C3: after every radio replenishment the queue holds no two tracks with the same
\* videoId, neither inside the appended suffix nor between the suffix and any earlier
\* position.
C3_NoDuplicateAfterRadio == radioKey # 0 => NoDup(queue)

\* C3 case: a replenishment appended tracks and dropped an id that sits in the old
\* queue before its last position.
C3_Witness ==
    /\ radioKey # 0 /\ pc = "play_current"
    /\ \E k \in 1..Len(queue), j \in 1..Len(queue), i \in 1..Len(radioRet) :
          /\ queue[k] = radioKey /\ j < k /\ k < Len(queue)
          /\ radioRet[i] = queue[j]

\* C4: Player.stop(), called in any Player state, returns with no live subprocess, no
\* open IPC socket, no IPC endpoint file and no temp audio file left.
C4_StopLeavesNothing ==
    lastStop.from # "none" =>
        (LiveProcs = 0 /\ process = "none" /\ socket = "none" /\ EndpointFiles = 0
         /\ AudioFiles = 0)

C6_DislikeLast ==
    [][/\ (DislikeOkStep /\ queue_index = Len(queue) - 1) =>
            /\ queue[queue_index + 1] \notin Range(queue')
            /\ queue_index' = Len(queue') /\ queue_index' >= 0
            /\ pc' \in {"play_current", "cli_loop"}
       /\ (/\ events = {"rate_dislike_ok"} /\ pc \in {"play_current", "cli_loop"}
           /\ queue_index = Len(queue) /\ pc' # pc) =>
            /\ "playback_finished" \in events'
            /\ pc' \in {"idle", "cli_done"}
            /\ UNCHANGED <<queue, queue_index>>]_vars

\* C6 case: the tray worker reported finished after the dislike of the last track,
\* with an earlier track still in the queue.
C6_Witness ==
    /\ mode = "tray" /\ pc = "idle"
    /\ events = {"rate_dislike_ok", "playback_finished"}
    /\ queue_index = Len(queue) /\ Len(queue) >= 1

\* C7: a successful dislike at index i with tracks after it stops the Session, removes
\* the track, keeps the index at i, and the track that followed is the current one.
C7_DislikeMiddle ==
    [][(DislikeOkStep /\ queue_index < Len(queue) - 1) =>
          /\ process' = "none" /\ ~procAlive'
          /\ queue_index' = queue_index
          /\ queue_index' < Len(queue')
          /\ queue'[queue_index' + 1] = queue[queue_index + 2]]_vars

\* C8: a failed rating in the tray worker is reported as an event and leaves the queue,
\* the index, the running Session and the poll timer as they were.
C8_RateFailureChangesNothing ==
    [][(/\ mode = "tray" /\ events' # events
        /\ events' \in {{"rate_like_failed"}, {"rate_dislike_failed"}}) =>
          UNCHANGED <<queue, queue_index, poll_timer, pc, playerVars, osVars>>]_vars

\* C8 case: the dislike failed while a Session was running and the timer was on.
C8_Witness ==
    /\ mode = "tray" /\ events = {"rate_dislike_failed"}
    /\ poll_timer /\ process = "set" /\ procAlive /\ pc = "idle"

\* C9: radio off and only natural completions: Player.play is called for the tracks in
\* queue order, each once; once finished is emitted the index is n, every track was
\* played, the timer is off and the worker rests.
C9_NaturalRun ==
    (mode = "tray" /\ naturalOnly /\ ~radio_mode) =>
        /\ Len(playLog) <= Len(queue)
        /\ playLog = SubSeq(queue, 1, Len(playLog))
        /\ pc \in {"play_stop", "play_download", "play_spawn", "play_wait", "play_started"}
              => Len(playLog) = queue_index + 1
        /\ "playback_finished" \in events =>
              /\ pc = "idle" /\ ~poll_timer
              /\ queue_index = Len(queue)
              /\ playLog = queue

\* C9 case: a queue of two tracks ran to its end by natural completions.
C9_Witness ==
    /\ mode = "tray" /\ naturalOnly /\ ~radio_mode
    /\ "playback_finished" \in events /\ Len(queue) = 2 /\ life = "session"

\* C10: a replenishment that appends tracks is keyed on the last track, appends in
\* returned order the ids not yet in the queue, leaves the index at the old queue
\* length, and the first appended track is the current one.
C10_ReplenishPlaysFirstAppended ==
    (mode = "tray" /\ radioKey # 0 /\ pc = "play_current") =>
        \E k \in 1..Len(queue) :
            /\ queue[k] = radioKey
            /\ queue = SubSeq(queue, 1, k) \o new_tracks(SubSeq(queue, 1, k), radioRet)
            /\ queue_index = k

\* a stop() ran in this step
StopRan == lastStop'.from # "none"

\* C11: a radio replenishment that yields no new track (or nothing at all) signals
\* playback_finished, leaves the queue unchanged and the timer off, and no further
\* radio request is made until a command arrives.
C11_RadioExhausted ==
    [][/\ (/\ pc = "fetch_radio" /\ (radioKey' # 0 \/ pc' # pc)
           /\ new_tracks(queue, radioRet') = <<>>) =>
            /\ pc' = "idle"
            /\ "playback_finished" \in events'
            /\ queue' = queue
            /\ ~poll_timer'
       /\ (AtRest /\ ~poll_timer /\ pc' = "fetch_radio") => StopRan]_vars

\* C11 case: the radio request returned tracks, all of them already in the queue.
C11_Witness ==
    /\ radioKey # 0 /\ radioRet # <<>> /\ pc = "idle"
    /\ "playback_finished" \in events

\* C12: a tick that finds the subprocess gone stops the timer and advances exactly once;
\* while the subprocess runs, a tick (or any step that stops nothing) never advances;
\* the index moves without a stop() only in such a tick, and no timer runs inside a
\* handler.
C12_TickDetectsEnd ==
    [][/\ (AtRest /\ process = "set" /\ procAlive /\ ~StopRan) =>
            UNCHANGED <<queue, queue_index, pc, poll_timer>>
       /\ (AtRest /\ poll_timer /\ ~poll_timer' /\ ~StopRan) =>
            /\ ~(process = "set" /\ procAlive)
            /\ queue_index' = queue_index + 1
            /\ UNCHANGED <<queue, playerVars, osVars>>
       /\ (AtRest /\ queue_index' # queue_index /\ ~StopRan) => (poll_timer /\ ~poll_timer')
       /\ (mode = "tray" /\ pc' # "idle") => ~poll_timer']_vars

\* C12 case: the tick found the subprocess of the first track gone and advanced.
C12_Witness ==
    /\ mode = "tray" /\ naturalOnly /\ pc = "play_current" /\ queue_index = 1
    /\ process = "set" /\ ~procAlive /\ ~poll_timer /\ playing = queue[1]

\* C13: when Player.play() cannot resolve the current track, the tray worker emits
\* error_occurred, keeps the queue, installs no Session and advances to the next index:
\* it plays it, replenishes in radio mode, or signals finished.
C13_ResolveFailureSkips ==
    [][(mode = "tray" /\ pc = "play_download" /\ pc' # pc /\ pc' # "play_spawn") =>
          /\ "error_occurred" \in events'
          /\ queue' = queue
          /\ process' = "none" /\ ~procAlive' /\ socket' = "none" /\ ~sockOnDisk'
          /\ audio_file' = "none" /\ ~audioOnDisk' /\ playing' = 0
          /\ queue_index' = queue_index + 1
          /\ pc' = IF queue_index + 1 < Len(queue) THEN "play_current"
                   ELSE IF radio_mode THEN "fetch_radio" ELSE "idle"
          /\ pc' = "idle" => "playback_finished" \in events']_vars

\* C13 case: the resolve of the first of two tracks failed and the second is up next.
C13_Witness ==
    /\ mode = "tray" /\ life = "failed" /\ pc = "play_current"
    /\ "error_occurred" \in events /\ queue_index = 1 /\ Len(queue) = 2

\* C16: a do_search with results has torn down the Session and the timer before the
\* search returns, then swaps the queue for the results, index 0, radio mode off, and
\* the play that follows is given the first result.
C16_SearchReplacesQueue ==
    [][/\ (pc = "search" /\ pc' = "play_current") =>
            /\ process = "none" /\ ~procAlive /\ socket = "none" /\ ~poll_timer
            /\ ~sockOnDisk /\ ~audioOnDisk
            /\ queue' # <<>> /\ queue_index' = 0 /\ ~radio_mode'
            /\ UNCHANGED <<playerVars, osVars, poll_timer>>
       /\ (mode = "tray" /\ pc = "play_current" /\ pc' = "play_stop") =>
            UNCHANGED <<queue, queue_index>>
       /\ (mode = "tray" /\ pc = "play_spawn" /\ pc' = "play_wait") =>
            playing' = queue[queue_index + 1]]_vars

\* C16 case: the first result of a search plays; the results repeat an id, which only
\* a search can put into the queue.
C16_Witness ==
    /\ mode = "tray" /\ pc = "idle" /\ queue_index = 0 /\ ~NoDup(queue)
    /\ process = "set" /\ procAlive /\ playing = queue[1]

\* the step of a previous-track command: a stop(), then the loop or _play_current, no
\* event, the index not increased
PrevStep ==
    /\ StopRan /\ events' = {} /\ queue_index' <= queue_index /\ queue' = queue
    /\ \/ AtRest /\ pc' = "play_current"
       \/ mode # "tray" /\ pc = "cli_playing" /\ pc' = "cli_loop"

\* C17: previous-track stops the Session, lowers the index by exactly one but not below
\* 0, and the track at the resulting index is replayed.
C17_PrevReplays ==
    [][(PrevStep /\ queue # <<>>) =>
          /\ process' = "none" /\ ~procAlive'
          /\ queue_index' = (IF queue_index = 0 THEN 0 ELSE queue_index - 1)
          /\ queue_index' < Len(queue')]_vars

\* the step of a next-track command of the worker: a stop(), the queue kept, no rating
\* event, not a search, not a stop request, not a previous-track
NextStep ==
    /\ AtRest /\ StopRan /\ queue' = queue /\ ~stopped'
    /\ pc' # "search" /\ events' \in {{}, {"playback_finished"}}
    /\ (queue_index' > queue_index \/ pc' # "play_current")

\* C18: next-track stops the Session and the timer, moves the index forward by one but
\* not past the queue length, and plays, replenishes or signals finished.
C18_NextClamped ==
    [][NextStep =>
          /\ process' = "none" /\ ~procAlive' /\ ~poll_timer'
          /\ queue_index' = (IF queue_index < Len(queue) THEN queue_index + 1
                             ELSE Len(queue))
          /\ pc' = IF queue_index' < Len(queue) THEN "play_current"
                   ELSE IF radio_mode THEN "fetch_radio" ELSE "idle"]_vars

\* the caller has the result of a call whose first command the peer did not answer
\* properly: the send or the receive failed, the peer closed the connection
\* without answering, or the answer was not JSON
Returned == mode = "client" /\ pc = "returned"
ChannelFailed == Returned /\ call.outcome \in {"error", "eof", "badjson"}

\* C19: a send, receive or decode failure of a command, the peer closing the connection
\* without answering included, leaves the Player without a socket (so that the next
\* command connects first), and the call returns the value that stands for None.
C19_FailureInvalidates ==
    (ChannelFailed /\ call.op # "toggle_pause") =>
        /\ socket = "none"
        /\ call.ret = default(call.op)

\* C20: no call of the control channel raises; when the endpoint is stale, missing or
\* unresponsive, or the answer malformed, a read returns its default and a set
\* operation returns False.
C20_NeverRaises ==
    Returned =>
        /\ call.ret # "exception"
        /\ call.outcome \in {"unreachable", "error", "eof", "badjson", "badutf8", "number"} =>
               call.ret = default(call.op)

\* the step in which the event loop delivers the oldest posted call
Delivers == pending # <<>> /\ pending' = Tail(pending)

MainStep == Len(pending') > Len(pending) \/ phase' # phase

\* C15: while the worker thread runs, no step of the main thread reads or writes the
\* worker's fields or its Player: the main thread only posts calls.
C15_WorkerThreadOnly ==
    [][(mode = "tray" /\ WorkerRuns /\ MainStep) =>
           UNCHANGED <<workerVars, playerVars, osVars>>]_vars

\* a yt-dlp run that returns normally and itself writes a non-empty file
yields(o) == ~o.raises /\ o.write = "data"

\* _download_audio has just returned a file / returned (None, 0)
Resolved == mode = "client" /\ resolver.ran /\ pc = "play_spawn"
ResolveFailed == mode = "client" /\ resolver.ran /\ pc = "cli_fail"

\* C21: the resolver returns at the first strategy that itself yields a non-empty
\* file, with the file that strategy wrote; if some strategy yields one, it returns one.
C21_FirstOwnOutput ==
    /\ Resolved =>
          /\ resolver.res.done
          /\ yields(resolver.outs[resolver.res.used])
          /\ resolver.res.by = resolver.res.used
          /\ \A j \in 1..(resolver.res.used - 1) : ~yields(resolver.outs[j])
    /\ ResolveFailed => \A j \in 1..3 : ~yields(resolver.outs[j])

\* C22: when the first two strategies yield nothing of their own (they raise, write a
\* zero-byte file or leave a partial file) and the third does, the file returned is
\* the one the third wrote.
C22_OnlyThirdSucceeds ==
    (/\ mode = "client" /\ resolver.ran /\ pc \in {"play_spawn", "cli_fail"}
     /\ ~yields(resolver.outs[1]) /\ ~yields(resolver.outs[2]) /\ yields(resolver.outs[3]))
        => /\ pc = "play_spawn"
           /\ resolver.res.used = 3
           /\ resolver.res.by = 3

\* C23: when every strategy fails, play() raises with the message of the last strategy
\* that raised, spawns nothing, installs nothing, and no temp audio file is left.
C23_FailureLeavesNothing ==
    ResolveFailed =>
        /\ ~resolver.res.done
        /\ resolver.outs[3].raises => resolver.res.err = 3
        /\ process = "none" /\ ~procAlive /\ socket = "none"
        /\ audio_file = "none" /\ ~audioOnDisk /\ playing = 0
        /\ resolver.res.file = "absent"
        /\ AudioFiles = 0

\* C24: every list the catalog hands over for a queue is free of repeated videoIds,
\* so no queue and no radio answer ever holds the same id twice.
C24_ListsDeduplicated ==
    /\ NoDup(queue)
    /\ NoDup(radioRet)

\* C27: in every reachable state of tray mode, when the now-playing snapshot file
\* does not exist, no playback Session is active: no player subprocess is alive.
C27_NoFileNoSession == (mode = "tray" /\ ~now_playing) => ~is_active

\* the control server dispatches the payload it read
CtlStep == ctl.got /\ ~ctl'.got

\* the token a payload carries: the payload is that token's text with nothing but
\* white space around it; "none" for every other payload, the empty one included
TokenOf(data) ==
    LET Is(i) == /\ data[i] \in Tokens
                 /\ \A j \in (1..Len(data)) \ {i} : data[j] \in Whitespace
    IN IF \E i \in 1..Len(data) : Is(i)
       THEN data[CHOOSE i \in 1..Len(data) : Is(i)]
       ELSE "none"

\* the main thread changes nothing the worker thread sees
Ignored == UNCHANGED <<pending, last, phase, workerVars, playerAll, pc, events, now_playing>>

\* C25: a payload read from the control socket that is no token of the dispatch
\* table (an unknown text, an empty or white-space-only payload) is ignored: no call
\* is posted to the worker and the worker's queue, index, flags and Session are
\* unchanged.
C25_UnknownIgnored == [][(CtlStep /\ TokenOf(ctl.data) = "none") => Ignored]_vars

\* C25 case: a payload that is no token was dispatched while a Session was playing.
C25_Witness == ctl.via = "other" /\ is_active /\ pc = "idle" /\ poll_timer

\* the popup control a token stands for
control_of(tok) ==
    CASE tok = "toggle-pause" -> "btn_play_pause"
      [] tok = "next" -> "btn_next"
      [] tok = "prev" -> "btn_prev"
      [] tok = "seek-fwd" -> "btn_seek_fwd"
      [] tok = "seek-back" -> "btn_seek_back"
      [] tok = "quit" -> "btn_quit"

\* C26: for each of the tokens toggle-pause, next, prev, seek-fwd, seek-back and
\* quit, dispatching the token from the control socket does to the worker's event
\* queue and to the application exactly what a click on the corresponding popup
\* control does, and touches nothing else: the worker receives the same call.
C26_SameCommandBothPaths ==
    [][\A tok \in {"toggle-pause", "next", "prev", "seek-fwd", "seek-back", "quit"} :
          (CtlStep /\ TokenOf(ctl.data) = tok)
              => /\ run(clicked(control_of(tok)))
                 /\ UNCHANGED <<last, workerVars, playerAll, pc, events, now_playing>>]_vars

\* C26 case: "quit" came in on the control socket and ended app.exec() with the
\* stop call posted.
C26_Witness ==
    /\ ctl.via = "token" /\ phase = "quitting"
    /\ pending # <<>> /\ pending[Len(pending)].cmd = "stop"

\* C30: once the worker has processed request_stop, no new Session is created:
\* whatever slots and ticks run afterwards (next, prev, like, dislike, search, tick),
\* Player.play is not entered, no replenishment is fetched, no player subprocess
\* exists and the poll timer stays stopped.
C30_NoSessionAfterStop ==
    stopped => /\ pc \in {"idle", "play_current", "search"}
               /\ ~poll_timer
               /\ process = "none" /\ ~procAlive /\ socket = "none"

\* C30 case: after request_stop a later slot went through _play_current, which
\* reported the end of playback with tracks still ahead in the queue.
C30_Witness ==
    /\ stopped /\ pc = "idle" /\ "playback_finished" \in events
    /\ queue_index < Len(queue)

\* a step of a control-channel command
ReadStep == pc = "recv" /\ (rx' # rx \/ pc' # pc)

\* C28: after a successful resolution Player.play always returns: it looks for the
\* endpoint at most 20 times; when the endpoint never appears or the connection is
\* refused it returns the resolved duration holding the subprocess and no socket;
\* a later read that finds no endpoint or is refused returns the default, and no
\* read touches the subprocess, so is_active() stays true while it lives.
C28_PlayReturns ==
    /\ [](tries <= PollTries)
    /\ (pc = "play_wait") ~> (pc = "cli_playing")
    /\ [](call.op = "play" =>
             /\ call.ret = duration /\ call.polls <= PollTries
             /\ process = "set"
             /\ (~call.found \/ ~call.ok) => socket = "none")
    /\ []((call.op = "get" /\ call.before = "none" /\ (~call.found \/ ~call.ok)) =>
             (call.ret = "default" /\ socket = "none"))
    /\ [][ReadStep => UNCHANGED <<process, procAlive>>]_vars

\* C28 case: the endpoint never appeared, play() gave up after 20 looks and
\* returned with the subprocess running and no socket.
C28_Witness ==
    /\ call.op = "play" /\ call.polls = PollTries /\ ~call.found
    /\ is_active /\ socket = "none" /\ pc = "cli_playing"

\* C29: a control-channel command sent to a subprocess that does not answer, or
\* that keeps sending data without a line break, eventually returns to its caller.
C29_CommandReturns == (pc = "recv") ~> (pc = "returned")

\* ---- a reply that raises while the track starts ----
\* _play_current when set_volume(100) raises out of _send_command although
\* Player.play returned (tray.py 750-751, 769-771): the first line a live mpv
\* answers is not valid UTF-8, or is JSON that is not an object (player.py 160, 176).
\* The `except Exception` reports the track as failed and advances; the Session
\* stays as play() installed it, and neither _paused nor the poll timer is touched.
PlayRaises ==
    /\ pc = "play_started"
    /\ is_active /\ (socket = "set" \/ sockOnDisk)
    /\ socket' = "set"
    /\ lastStop' = NoStop
    /\ AdvanceQueue(events \cup {"error_occurred"})
    /\ UNCHANGED <<queue, paused, radio_mode, poll_timer, stopped, front, histVars,
                   process, socket_path, duration, audio_file, osVars, life, playing>>

FaultNext == TrayNext \/ PlayRaises

InitFault == Init /\ mode = "tray"

\* the tray worker with replies that raise
SpecFault == InitFault /\ [][FaultNext]_vars

\* C31: whenever the worker has emitted playback_finished, no Session is active:
\* the player subprocess is not live and the poll timer is not running.
C31_FinishedMeansNoSession ==
    (mode = "tray" /\ "playback_finished" \in events) => (~is_active /\ ~poll_timer)


\* C32: whenever the worker is idle between commands, has not been stopped and its
\* Player has a live subprocess, the poll timer is running (so that the end of the
\* track is detected by a tick and followed by an advance).
C32_TimerRunsWhileLive ==
    (AtRest /\ ~stopped /\ is_active) => poll_timer

\* ---- the pause flag against the pause state of mpv ----
\* a pause/resume command takes effect when a live mpv receives it over the
\* control channel and answers success (player.py 173-176, 141-164)
took_effect(ok, o) ==
    /\ is_active
    /\ (IF socket = "none" THEN connect_ipc(ok) ELSE socket) # "none"
    /\ o = "ok"

\* toggle_pause with the outcome of its command followed
\* (tray.py 834-841; Player.pause / Player.resume, player.py 274-280)
toggle_pause_sent(ok, o) ==
    /\ Begin(TRUE)
    /\ playLog' = <<>>
    /\ socket' = send_command(socket, ok, o)
    /\ lastStop' = NoStop
    /\ mpv_pause' = IF took_effect(ok, o) THEN ~paused ELSE mpv_pause
    /\ paused' = ~paused
    /\ events' = {}
    /\ UNCHANGED <<queue, queue_index, radio_mode, poll_timer, stopped, pc,
                   process, socket_path, duration, audio_file, osVars, life, playing,
                   mode, depth, pending, last, phase, call, resolver, back, now_playing>>

TogglePauseSent ==
    /\ Idle
    /\ \E ok \in BOOLEAN, o \in CmdOutcomes : toggle_pause_sent(ok, o)

PauseNext ==
    \/ StartPlayback \/ PlayCurrent \/ FetchRadio
    \/ PlayStop \/ PlayDownload \/ PlaySpawn \/ PlayWait \/ PlayStarted
    \/ MpvCreatesSocket \/ MpvExits
    \/ PollTick \/ TogglePauseSent \/ Seek \/ NextTrack \/ PrevTrack
    \/ RateLike \/ RateDislike \/ DoSearch \/ SearchDone \/ RequestStop

InitPause == Init /\ mode = "tray"

\* the tray worker with the pause state of mpv followed
SpecPause == InitPause /\ [][PauseNext]_vars

\* C33: between two handlers the paused flag of the worker (what progress events
\* and the snapshot icon show) equals the pause state applied to the player: a
\* toggle changes the flag only when its command took effect, and the flag is
\* false when a track has started.
C33_FlagIsAppliedState ==
    AtRest => (paused = mpv_pause)

\* ---- a search, with the playback it interrupted remembered ----
\* do_search up to the blocking api.search call (tray.py 911-918); `call` notes
\* the subprocess field and the timer the slot found
DoSearchNoted ==
    /\ Idle
    /\ do_search
    /\ call' = [op |-> "search", process |-> process, timer |-> poll_timer]
    /\ UNCHANGED <<setting, pending, last, phase, resolver, back, now_playing>>

SearchNext ==
    \/ StartPlayback \/ PlayCurrent
    \/ PlayStop \/ PlayDownload \/ PlaySpawn \/ PlayWait \/ PlayStarted
    \/ MpvCreatesSocket \/ MpvExits
    \/ PollTick \/ TogglePause \/ Seek \/ NextTrack \/ PrevTrack
    \/ RateLike \/ RateDislike \/ DoSearchNoted \/ SearchDone \/ RequestStop

\* radio off: a search switches it off, and replenishment is covered by Spec
InitSearch == Init /\ mode = "tray" /\ ~radio_mode

SpecSearch == InitSearch /\ [][SearchNext]_vars

\* the step in which a search that found nothing ends (tray.py 919-921)
NoResults == pc = "search" /\ pc' = "idle" /\ "error_occurred" \in events'

\* C34 (as stated): a do_search whose search returns no results emits
\* error_occurred and leaves the queue, the current index, radio mode and the
\* current playback (subprocess and poll timer) as they were before the search.
C34_FailedSearchKeepsPlayback ==
    [][NoResults =>
          /\ UNCHANGED <<queue, queue_index, radio_mode>>
          /\ process' = call.process /\ poll_timer' = call.timer]_vars

\* C34 (amended): a do_search whose search returns no results emits
\* error_occurred and leaves the queue, the current index and radio mode as they
\* were; the playback it found is gone: no subprocess, no control channel, no
\* audio or endpoint file, and the poll timer is not running.
C34_FailedSearchStopsPlayback ==
    [][/\ (pc' = "search" \/ NoResults) => UNCHANGED <<queue, queue_index, radio_mode>>
       /\ NoResults =>
             /\ events' = {"error_occurred"}
             /\ process' = "none" /\ socket' = "none" /\ audio_file' = "none"
             /\ ~audioOnDisk' /\ ~sockOnDisk' /\ ~procAlive'
             /\ ~poll_timer']_vars

\* a search that found nothing has just ended a track that was playing
C34_Witness ==
    /\ mode = "tray" /\ pc = "idle" /\ events = {"error_occurred"}
    /\ call = [op |-> "search", process |-> "set", timer |-> TRUE]
    /\ queue # <<>> /\ process = "none" /\ ~poll_timer

\* ---- a dislike, with the id it removed remembered ----
\* rate_dislike (tray.py 895-909); `call` notes the id of the last track a
\* successful dislike removed
RateDislikeNoted ==
    /\ Idle
    /\ rate_dislike
    /\ call' = IF events' = {"rate_dislike_ok"}
               THEN [op |-> "dislike", vid |-> queue[queue_index + 1]]
               ELSE call
    /\ UNCHANGED <<setting, pending, last, phase, resolver, back, now_playing>>

DislikeNext ==
    \/ StartPlayback \/ PlayCurrent \/ FetchRadio
    \/ PlayStop \/ PlayDownload \/ PlaySpawn \/ PlayWait \/ PlayStarted
    \/ MpvCreatesSocket \/ MpvExits
    \/ PollTick \/ NextTrack \/ PrevTrack
    \/ RateDislikeNoted \/ RequestStop

\* the commands that write the queue or the index, without do_search: what a
\* search puts into the queue is the user's own choice
InitDislike == Init /\ mode = "tray"

SpecDislike == InitDislike /\ [][DislikeNext]_vars

\* the id a successful dislike removed is in the queue or is the track playing
Back == call.op = "dislike" /\ (call.vid \in Range(queue) \/ playing = call.vid)

\* C35 (as stated): after a dislike succeeded for a track, its id is nowhere in
\* the queue and the track is not played again for the rest of the run, radio
\* replenishments included.
C35_DislikedNeverReturns == ~Back

\* the step in which a dislike succeeded (tray.py 900-909)
Disliking == pc = "idle" /\ pc' = "play_current" /\ "rate_dislike_ok" \in events'

\* C35 (amended): when a dislike succeeded for a track, its id is nowhere in the
\* queue and it is not the track playing, and that stays so in every step that is
\* not a radio replenishment.
C35_DislikedStaysOutUntilRadio ==
    [][(pc # "fetch_radio" /\ (Disliking \/ ~Back)) => ~Back']_vars

\* another track plays after a dislike removed one
C35_Witness ==
    /\ call.op = "dislike" /\ ~Back
    /\ mode = "tray" /\ pc = "idle" /\ is_active /\ playing # 0

\* ---- the recursion of the worker, frame by frame ----
\* Every track fails to resolve here (Player.play raises for each one), so a
\* command runs _play_current -> _advance_queue -> _play_current ... and, at the
\* end of the queue, _fetch_radio. Each call is a Python frame on top of the
\* frames of its callers; the frames inside Player.play are gone when the except
\* branch runs and are not counted.

\* a call of f from the running frame: one more frame, or RecursionError, which
\* no frame below catches (every caller is in an except branch or outside a
\* try) and which ends the slot
Enter(f) ==
    IF depth < RecursionLimit
    THEN pc' = f /\ depth' = depth + 1 /\ UNCHANGED events
    ELSE pc' = "idle" /\ depth' = 0 /\ events' = events \cup {"RecursionError"}

\* the slot returns: all frames are gone
finished(ev) == pc' = "idle" /\ depth' = 0 /\ events' = ev

deepFrame == <<paused, poll_timer, stopped, radio_mode, playerAll, histVars,
               mode, mpv_pause, pending, last, phase, call, resolver, back, now_playing>>

\* start_playback (tray.py 727-734), the slot's own frame included
DeepStart ==
    /\ pc = "start" /\ queue # <<>>
    /\ queue_index' = 0
    /\ pc' = "play_current" /\ depth' = 2 /\ events' = {}
    /\ UNCHANGED <<queue, deepFrame>>

\* _play_current whose Player.play raises (tray.py 736-750, 769-771)
DeepPlayCurrent ==
    /\ pc = "play_current" /\ depth > 0
    /\ IF nothing_to_play
       THEN finished(events \cup {"playback_finished"})
       ELSE Enter("advance_queue")
    /\ UNCHANGED <<queue, queue_index, deepFrame>>

\* _advance_queue (tray.py 773-783)
DeepAdvance ==
    /\ pc = "advance_queue"
    /\ IF stopped
       THEN finished(events) /\ UNCHANGED queue_index
       ELSE /\ queue_index' = next_index(queue_index)
            /\ IF next_index(queue_index) < Len(queue)
               THEN Enter("play_current")
               ELSE IF radio_mode
                    THEN Enter("fetch_radio")
                    ELSE finished(events \cup {"playback_finished"})
    /\ UNCHANGED <<queue, deepFrame>>

\* what the radio source answers: nothing new, or the next ids of the catalog,
\* at most RadioLimit of them
Batches(q) ==
    {<<>>} \cup
    {[i \in 1..k |-> Len(q) + i] : k \in {IF Len(q) + RadioLimit <= Catalog
                                          THEN RadioLimit ELSE Catalog - Len(q)}}

\* _fetch_radio (tray.py 785-806)
DeepFetchRadio ==
    /\ pc = "fetch_radio"
    /\ \E radio_tracks \in Batches(queue) :
          LET added == new_tracks(queue, radio_tracks)
          IN IF added = <<>>
             THEN finished(events \cup {"playback_finished"}) /\ UNCHANGED queue
             ELSE queue' = queue \o added /\ Enter("play_current")
    /\ UNCHANGED <<queue_index, deepFrame>>

DeepNext == DeepStart \/ DeepPlayCurrent \/ DeepAdvance \/ DeepFetchRadio

InitDeep == Init /\ mode = "tray"

SpecDeep == InitDeep /\ [][DeepNext]_vars

\* C36: every command of the worker ends, and the recursion _play_current ->
\* _advance_queue -> _fetch_radio -> _play_current ends with a track playing or
\* with playback_finished emitted, also when every track fails to resolve and the
\* radio source draws from a finite catalog.
C36_EndsPlayingOrFinished ==
    (mode = "tray" /\ pc = "idle" /\ ~stopped) =>
        (is_active \/ "playback_finished" \in events)

\* ---- the two front ends against one queue state machine ----
\* queue and index after an event that arrives while a track plays (the track
\* ends, next, prev, a dislike that succeeded, a dislike that failed), and after
\* a track that could not be resolved
machine(q, i, e) ==
    IF e = "natural" \/ e = "next" \/ e = "unresolved" THEN <<q, i + 1>>
    ELSE IF e = "prev" THEN <<q, IF i > 0 THEN i - 1 ELSE 0>>
    ELSE IF e = "dislike_ok"
         THEN LET Other(t) == t # q[i + 1]
                  rest == SelectSeq(q, Other)
              IN <<rest, IF i < Len(rest) THEN i ELSE Len(rest)>>
    ELSE <<q, i>>

\* the step of either front end that handles e
Handles(e) ==
    IF e = "natural" THEN (PollTick /\ ~is_active) \/ CliNatural
    ELSE IF e = "next" THEN (NextTrack /\ is_active) \/ CliKeyNext
    ELSE IF e = "prev" THEN (PrevTrack /\ is_active) \/ CliKeyPrev
    ELSE IF e = "dislike_ok"
         THEN ((RateDislike /\ is_active) \/ CliKeyDislike) /\ "rate_dislike_ok" \in events'
    ELSE IF e = "dislike_failed"
         THEN ((RateDislike /\ is_active) \/ CliKeyDislike) /\ "rate_dislike_failed" \in events'
    ELSE (PlayDownload /\ mode = "tray" /\ life' = "failed") \/ CliFail

QueueEvents == {"natural", "next", "prev", "dislike_ok", "dislike_failed"}

\* both front ends with radio off and the commands that move the queue
TwinNext ==
    \/ StartPlayback \/ PlayCurrent
    \/ PlayStop \/ PlayDownload \/ PlaySpawn \/ PlayWait \/ PlayStarted
    \/ MpvCreatesSocket \/ MpvExits
    \/ PollTick \/ NextTrack \/ PrevTrack \/ RateDislike
    \/ CliLoop \/ CliFail \/ CliNatural \/ CliKeyNext \/ CliKeyPrev \/ CliKeyDislike

InitTwin == Init /\ ~radio_mode

SpecTwin == InitTwin /\ [][TwinNext]_vars

\* a step of either front end is the step of the queue state machine for e, and
\* the front end goes on with the track at the new index
Agree(e) ==
    Handles(e) =>
       /\ <<queue', queue_index'>> = machine(queue, queue_index, e)
       /\ (e # "dislike_failed" /\ queue_index' < Len(queue'))
             => pc' \in {"play_current", "cli_loop"}

\* C37: with radio off, the tray worker and the interactive loops go through the
\* same sequence of (queue, index, track played) for the same events that arrive
\* while a track plays (natural completion, next, prev, dislike succeeded, dislike
\* failed), whatever happens to the tracks they start in between, and finish at
\* the same point, the index at the length of the queue.
C37_SameQueueMachine ==
    [][~radio_mode =>
          /\ \A e \in QueueEvents \cup {"unresolved"} : Agree(e)
          /\ ("playback_finished" \in events' /\ "playback_finished" \notin events)
                => queue_index' >= Len(queue')
          /\ pc' = "play_spawn" => queue_index' < Len(queue')
          /\ (pc' = "cli_done" /\ pc # "cli_done") => queue_index' >= Len(queue')]_vars

\* C38: when Player.play fails to resolve the current track in an interactive
\* loop, the failure is shown, that track alone is skipped and the loop goes on
\* with the next track; when the loop is left, Player.stop has run.
C38_FailedTrackIsSkipped ==
    [][/\ (Cli /\ pc = "cli_fail") =>
             /\ "error_occurred" \in events'
             /\ queue' = queue /\ queue_index' = queue_index + 1
             /\ pc' = "cli_loop"
       /\ (Cli /\ pc' = "cli_done" /\ pc # "cli_done") => life' = "stopped"]_vars

\* ---- the cleanup of run_tray_mode, with Player.stop not atomic ----
\* worker.request_stop() called on the main thread (tray.py 1088, 928-934) up
\* to the point where Player.stop has terminated the subprocess it found and
\* waited for it (player.py 222-234); the worker thread keeps running meanwhile
CleanupBegin ==
    /\ mode = "tray" /\ phase = "quitting" /\ process = "set"
    /\ stopped' = TRUE
    /\ poll_timer' = FALSE
    /\ socket' = "none"
    /\ procAlive' = FALSE
    /\ phase' = "stopping"
    /\ lastStop' = NoStop
    /\ UNCHANGED <<queue, queue_index, paused, radio_mode, pc, events, histVars,
                   process, socket_path, duration, audio_file,
                   sockOnDisk, audioOnDisk, orphanProcs, orphanSocks, orphanAudio, leakedAudio,
                   life, playing, setting, pending, last, call, resolver, back, now_playing>>

\* the rest of that Player.stop (player.py 235-252) and of request_stop:
\* `self._process = None` drops whatever the field holds by now, then the
\* endpoint and the audio file the fields name now are removed
CleanupEnd ==
    /\ mode = "tray" /\ phase = "stopping"
    /\ process' = "none"
    /\ orphanProcs' = orphanProcs + (IF process = "set" /\ procAlive THEN 1 ELSE 0)
    /\ procAlive' = FALSE
    /\ socket_path' = IF set_and_exists(socket_path, sockOnDisk) THEN "none" ELSE socket_path
    /\ sockOnDisk' = IF set_and_exists(socket_path, sockOnDisk) THEN FALSE ELSE sockOnDisk
    /\ audio_file' = IF set_and_exists(audio_file, audioOnDisk) THEN "none" ELSE audio_file
    /\ audioOnDisk' = IF set_and_exists(audio_file, audioOnDisk) THEN FALSE ELSE audioOnDisk
    /\ duration' = 0
    /\ life' = "stopped"
    /\ now_playing' = clear_now_playing
    /\ phase' = "cleanup"
    /\ UNCHANGED <<workerVars, pc, events, histVars, socket, orphanSocks, orphanAudio,
                   leakedAudio, lastStop, playing, setting, pending, last, call, resolver, back>>

RaceNext == QNext \/ CleanupBegin \/ CleanupEnd

\* tray mode with the cleanup interleaved with the worker thread
SpecRace == InitQ /\ [][RaceNext]_vars

\* C39: when run_tray_mode has returned after a quit, whatever the worker thread
\* was doing while the main thread cleaned up, no player subprocess is live, no
\* temp audio file and no endpoint file is left, and the now-playing snapshot
\* file is gone.
C39_NothingLeftAfterQuit ==
    phase = "done" =>
        (LiveProcs = 0 /\ AudioFiles = 0 /\ EndpointFiles = 0 /\ ~now_playing)

====
